---- MODULE Spec2Model ----
(***************************************************************************)
(* Envelope measurement engine and concurrent measurement scheduler of     *)
(* gen_adldata (utils/gen_adldata/measurer.cpp, gen_adldata.cc).           *)
(*                                                                         *)
(* The module holds several specifications over one set of variables; each *)
(* specification drives one group of variables and leaves the others at    *)
(* their idle values:                                                      *)
(*   SpecHist   AudioHistory (the double-written ring buffer)              *)
(*   SpecNote   TinySynth::noteOn (frequency encoding)                     *)
(*   SpecSched  MeasureThreaded::run / waitAll / destData::callback        *)
(*   SpecCache  MeasureThreaded::SaveCacheX / LoadCacheX                   *)
(*   SpecMeas   MeasureDurations (both representations)                    *)
(*   SpecKey    OperatorsKey against the registers a task programs          *)
(*   SpecSynth  TinySynth: resetChip, setInstrument, noteOn, noteOff        *)
(*   SpecRerun  a later run on the cache file an earlier run saved          *)
(*   SpecSchedFair  SpecSched under fair scheduling of the threads          *)
(***************************************************************************)
EXTENDS Integers, Sequences, FiniteSets, TLC

VARIABLES
    \* ---- AudioHistory<T> ----
    m_data,        \* the 2*capacity array, indexed from 0
    m_index,       \* next write slot
    m_length,      \* logical length
    m_capacity,    \* capacity given to reset()
    h_log,         \* every value passed to add() since the last reset(), in order
    h_cleared,     \* TRUE once clear() was called since the last reset()
    h_since,       \* the number of add() calls since the last clear() or reset()
    \* ---- TinySynth::noteOn ----
    n_pc,          \* position inside noteOn for the voice being keyed
    n_note,        \* m_playNoteNum
    n_offset,      \* m_noteOffsets[n]
    n_hertz,       \* hertz before any halving, in units of 1/1024 Hz
    n_halvings,    \* number of times the while loop body ran
    n_x,           \* m_x[n]
    \* ---- MeasureThreaded and main ----
    hw,              \* the value std::thread::hardware_concurrency() reports
    m_semaphore,     \* Semaphore::m_count
    m_durationInfo_mx, \* owner of the cache mutex: 0 when free, else a task
    m_durationInfoX, \* the compact cache: OperatorsKey -> DurationInfo
    m_done,
    m_cache_matches,
    m_total,
    m_threads,       \* the vector of task handles
    main_pc,         \* position of main
    main_b,          \* main's loop index b (next instrument to submit)
    main_i,          \* waitAll's position in m_threads
    db,              \* BanksDump: [instruments, operators]
    w_pc,            \* position of each worker inside destData::callback
    m_works,         \* destData::m_works of each task
    w_ok,            \* the worker's local OperatorsKey ok
    w_atEnd,         \* the worker's local atEnd
    w_info,          \* the worker's local DurationInfo info
    w_chipOps,       \* chip operations (setRate, writeReg, generate) a worker made
    preloaded,       \* the keys LoadCacheX put into the cache
    s_bd,            \* destData::bd of this run's tasks is set (run(bd, e)) or null (run(i))
    m_durationInfo,  \* the legacy cache: ins -> DurationInfo
    isSilent,        \* what BanksDump::isSilent answers, by operator content
    w_writes,        \* the writeReg calls the worker's TinySynth made, in order
    \* ---- the cache file ----
    f_exists,        \* the cache file exists
    f_bytes,         \* its content
    c_pc,            \* position in the save / load sequence
    c_saved,         \* the cache as it was when SaveCacheX wrote it
    c_log,           \* the message LoadCacheX printed
    c_damage,        \* what happened to the file between save and load
    \* ---- MeasureDurations ----
    ms_pc,           \* position inside MeasureDurations
    ms_variant,      \* "legacy" (const ins &) or "newer" (BanksDump &)
    ms_run,          \* which execution on this instrument is running
    ms_ins,          \* the instrument: the ins, or the InstrumentEntry of the db
    chip,            \* the chip behind OPLChipBase
    synth,           \* the TinySynth
    an,              \* the locals of MeasureDurations
    ms_result,       \* the DurationInfo result
    ms_first,        \* the result of the first execution
    ms_silent2,      \* the answers BanksDump::isSilent gave for the instrument so far
    ms_heard         \* what an observer of the chip noted down in each phase

histVars == <<m_data, m_index, m_length, m_capacity, h_log, h_cleared, h_since>>
noteVars == <<n_pc, n_note, n_offset, n_hertz, n_halvings, n_x>>
schedVars == <<hw, m_semaphore, m_durationInfo_mx, m_durationInfoX, m_done,
               m_cache_matches, m_total, m_threads, main_pc, main_b, main_i, db,
               w_pc, m_works, w_ok, w_atEnd, w_info, w_chipOps, preloaded,
               s_bd, m_durationInfo, isSilent, w_writes>>
cacheVars == <<f_exists, f_bytes, c_pc, c_saved, c_log, c_damage>>
measVars == <<ms_pc, ms_variant, ms_run, ms_ins, chip, synth, an, ms_result, ms_first,
              ms_silent2, ms_heard>>
histObj == <<m_data, m_index, m_length, m_capacity>>
vars == <<histVars, noteVars, schedVars, cacheVars, measVars>>

Min(a, b) == IF a < b THEN a ELSE b
Max(a, b) == IF a > b THEN a ELSE b

(***************************************************************************)
(* Bounds of the model.                                                    *)
(***************************************************************************)
MaxCap == 3       \* largest capacity passed to AudioHistory::reset
MaxAdds == 6      \* longest sequence of add() calls followed after a reset
MaxSample == 2    \* samples are drawn from 0..MaxSample
NumIns == 3       \* instruments in the database, one task each
MaxHW == 1        \* hardware_concurrency() reports a value in 0..MaxHW
MaxOp == 1        \* the shared operator table has entries 0..MaxOp

(***************************************************************************)
(* AudioHistory<T>                                                         *)
(***************************************************************************)
HistIdle ==
    /\ m_data = <<>>
    /\ m_index = 0
    /\ m_length = 0
    /\ m_capacity = 0
    /\ h_log = <<>>
    /\ h_cleared = FALSE
    /\ h_since = 0

\* size()
HistSize == m_length

\* data(): the offset of the first element of the view inside m_data
HistDataOffset == m_index + m_capacity - m_length

\* the size() elements starting at data(), as a sequence
HistView == [i \in 1..m_length |-> m_data[HistDataOffset + i - 1]]

\* the last n elements of a sequence
LastN(s, n) == [i \in 1..n |-> s[Len(s) - n + i]]

\* reset(capacity): new T[2 * capacity]() value-initialises the array
HistReset(capacity) ==
    /\ m_data' = [i \in 0..(2 * capacity - 1) |-> 0]
    /\ m_index' = 0
    /\ m_length' = 0
    /\ m_capacity' = capacity
    /\ h_log' = <<>>
    /\ h_cleared' = FALSE
    /\ h_since' = 0

\* a plausible slip: clear() rewinds the write index and keeps the length
HistClear_RewindsOnly ==
    /\ m_index' = 0
    /\ h_cleared' = TRUE
    /\ h_since' = 0
    /\ UNCHANGED <<m_data, m_length, m_capacity, h_log>>

\* clear()
HistClear ==
    /\ m_length' = 0
    /\ h_cleared' = TRUE
    /\ h_since' = 0
    /\ UNCHANGED <<m_data, m_index, m_capacity, h_log>>

\* a plausible slip in add(): the mirror write at index + capacity is left out
HistStore_NoMirror(data, index, capacity, item) ==
    [data EXCEPT ![index] = item]

\* the two stores of add(): data[index] = item; data[index + capacity] = item
HistStore(data, index, capacity, item) ==
    [data EXCEPT ![index] = item, ![index + capacity] = item]

\* the AudioHistory object as a record
HistRec == [data |-> m_data, index |-> m_index, length |-> m_length, capacity |-> m_capacity]

\* add(item) on an AudioHistory h
HistAddTo(h, item) ==
    [data |-> HistStore(h.data, h.index, h.capacity, item),
     index |-> IF h.index + 1 # h.capacity THEN h.index + 1 ELSE 0,
     length |-> IF h.length + 1 < h.capacity THEN h.length + 1 ELSE h.capacity,
     capacity |-> h.capacity]

\* reset(capacity) as a value
HistFresh(capacity) ==
    [data |-> [i \in 0..(2 * capacity - 1) |-> 0], index |-> 0, length |-> 0,
     capacity |-> capacity]

\* the size() elements starting at data() of an AudioHistory h
HistViewOf(h) == [i \in 1..h.length |-> h.data[h.index + h.capacity - h.length + i - 1]]

\* the object becomes h
HistBecomes(h) ==
    /\ m_data' = h.data
    /\ m_index' = h.index
    /\ m_length' = h.length
    /\ m_capacity' = h.capacity

\* add(item), as called on a buffer that reset() has sized
HistAdd(item) ==
    /\ m_capacity >= 1
    /\ Len(h_log) < MaxAdds
    /\ HistBecomes(HistAddTo(HistRec, item))
    /\ h_log' = Append(h_log, item)
    /\ h_since' = h_since + 1
    /\ UNCHANGED h_cleared

(***************************************************************************)
(* TinySynth::noteOn: the frequency encoding of one voice.                 *)
(* hertz is a double in the source.  The model keeps hertz * 1024 rounded  *)
(* down (HertzTable) and the number of halvings done so far; the tests of  *)
(* the source compare against multiples of 1/1024, so they are decided     *)
(* exactly by these integers.                                              *)
(***************************************************************************)
\* floor(1024 * 172.00093 * exp(0.057762265 * k)) for k = -128 .. 254 at
\* position k + 129, capped at 2^28 (every capped entry is above the clamp).
HertzTable == <<
    108, 114, 121, 128, 136, 144, 153, 162,
    172, 182, 193, 204, 216, 229, 243, 257,
    273, 289, 306, 324, 344, 364, 386, 409,
    433, 459, 486, 515, 546, 578, 612, 649,
    688, 728, 772, 818, 866, 918, 972, 1030,
    1092, 1157, 1225, 1298, 1376, 1457, 1544, 1636,
    1733, 1836, 1945, 2061, 2184, 2314, 2451, 2597,
    2752, 2915, 3089, 3272, 3467, 3673, 3891, 4123,
    4368, 4628, 4903, 5195, 5504, 5831, 6178, 6545,
    6934, 7346, 7783, 8246, 8737, 9256, 9807, 10390,
    11008, 11662, 12356, 13090, 13869, 14693, 15567, 16493,
    17474, 18513, 19614, 20780, 22016, 23325, 24712, 26181,
    27738, 29387, 31135, 32986, 34948, 37026, 39228, 41560,
    44032, 46650, 49424, 52363, 55477, 58775, 62270, 65973,
    69896, 74053, 78456, 83121, 88064, 93301, 98849, 104726,
    110954, 117551, 124541, 131947, 139793, 148106, 156913, 166243,
    176128, 186602, 197698, 209453, 221908, 235103, 249083, 263895,
    279587, 296212, 313826, 332487, 352257, 373204, 395396, 418907,
    443817, 470207, 498167, 527790, 559174, 592424, 627652, 664974,
    704515, 746408, 790792, 837815, 887634, 940415, 996335, 1055581,
    1118349, 1184849, 1255304, 1329948, 1409031, 1492816, 1581584, 1675630,
    1775268, 1880831, 1992671, 2111162, 2236698, 2369699, 2510608, 2659897,
    2818063, 2985633, 3163169, 3351260, 3550537, 3761663, 3985343, 4222324,
    4473396, 4739398, 5021217, 5319794, 5636126, 5971267, 6326338, 6702521,
    7101074, 7523326, 7970686, 8444648, 8946793, 9478797, 10042435, 10639589,
    11272252, 11942535, 12652676, 13405043, 14202148, 15046652, 15941372, 16889296,
    17893586, 18957594, 20084871, 21279179, 22544505, 23885071, 25305352, 26810086,
    28404297, 30093304, 31882745, 33778592, 35787172, 37915188, 40169742, 42558359,
    45089011, 47770143, 50610704, 53620173, 56808594, 60186609, 63765491, 67557185,
    71574344, 75830376, 80339485, 85116719, 90178023, 95540287, 101221408, 107240346,
    113617189, 120373219, 127530983, 135114370, 143148688, 151660752, 160678970, 170233439,
    180356046, 191080574, 202442816, 214480693, 227234378, 240746438, 255061966, 268435456,
    268435456, 268435456, 268435456, 268435456, 268435456, 268435456, 268435456, 268435456,
    268435456, 268435456, 268435456, 268435456, 268435456, 268435456, 268435456, 268435456,
    268435456, 268435456, 268435456, 268435456, 268435456, 268435456, 268435456, 268435456,
    268435456, 268435456, 268435456, 268435456, 268435456, 268435456, 268435456, 268435456,
    268435456, 268435456, 268435456, 268435456, 268435456, 268435456, 268435456, 268435456,
    268435456, 268435456, 268435456, 268435456, 268435456, 268435456, 268435456, 268435456,
    268435456, 268435456, 268435456, 268435456, 268435456, 268435456, 268435456, 268435456,
    268435456, 268435456, 268435456, 268435456, 268435456, 268435456, 268435456, 268435456,
    268435456, 268435456, 268435456, 268435456, 268435456, 268435456, 268435456, 268435456,
    268435456, 268435456, 268435456, 268435456, 268435456, 268435456, 268435456, 268435456,
    268435456, 268435456, 268435456, 268435456, 268435456, 268435456, 268435456, 268435456,
    268435456, 268435456, 268435456, 268435456, 268435456, 268435456, 268435456, 268435456,
    268435456, 268435456, 268435456, 268435456, 268435456, 268435456, 268435456, 268435456,
    268435456, 268435456, 268435456, 268435456, 268435456, 268435456, 268435456, 268435456,
    268435456, 268435456, 268435456, 268435456, 268435456, 268435456, 268435456, 268435456,
    268435456, 268435456, 268435456, 268435456, 268435456, 268435456, 268435456
>>

\* 172.00093 * std::exp(0.057762265 * (m_playNoteNum + m_noteOffsets[n]))
Hertz1024(note, offset) == HertzTable[note + offset + 129]

\* a plausible slip: the clamp to 131071 is left out
HertzClamp_None(h) == h

\* if(hertz > 131071) hertz = 131071
HertzClamp(h) == IF h > 131071 * 1024 THEN 131071 * 1024 ELSE h

RECURSIVE Pow2(_)
Pow2(n) == IF n = 0 THEN 1 ELSE 2 * Pow2(n - 1)

\* while(hertz >= 1023.5), after j halvings: hertz0 / 2^j >= 1023.5
HertzAtLeast1023_5(h, j) == h >= 1048064 * Pow2(j)

\* (unsigned int)(hertz + 0.5), after j halvings
HertzRound(h, j) == (h + Pow2(j + 9)) \div Pow2(j + 10)

NoteIdle ==
    /\ n_pc = "idle"
    /\ n_note = 0
    /\ n_offset = 0
    /\ n_hertz = 0
    /\ n_halvings = 0
    /\ n_x = 0

\* double hertz = ...; clamp; m_x[n] = 0x2000u
NoteOnBegin ==
    /\ n_pc = "begin"
    /\ n_hertz' = HertzClamp(Hertz1024(n_note, n_offset))
    /\ n_x' = 8192
    /\ n_pc' = "loop"
    /\ UNCHANGED <<n_note, n_offset, n_halvings>>

\* one iteration of the while loop: hertz /= 2.0; m_x[n] += 0x400
NoteOnHalve ==
    /\ n_pc = "loop"
    /\ HertzAtLeast1023_5(n_hertz, n_halvings)
    /\ n_halvings' = n_halvings + 1
    /\ n_x' = n_x + 1024
    /\ UNCHANGED <<n_pc, n_note, n_offset, n_hertz>>

\* loop exit: m_x[n] += (unsigned int)(hertz + 0.5)
NoteOnFinish ==
    /\ n_pc = "loop"
    /\ ~HertzAtLeast1023_5(n_hertz, n_halvings)
    /\ n_x' = n_x + HertzRound(n_hertz, n_halvings)
    /\ n_pc' = "done"
    /\ UNCHANGED <<n_note, n_offset, n_hertz, n_halvings>>

(***************************************************************************)
(* The instrument database (BanksDump) and the cache key                   *)
(***************************************************************************)
Tasks == 1..NumIns

\* BanksDump::InstrumentEntry::WOPL_InstrumentFlags (progs_cache.h)
WOPL_Ins_4op == 1
WOPL_Ins_Pseudo4op == 2
WOPL_Ins_IsBlank == 4

\* (flags & bit) != 0, for a single-bit mask
HasFlag(flags, bit) == (flags \div bit) % 2 = 1

\* flags | bit, for a single-bit mask
SetFlag(flags, bit) == IF HasFlag(flags, bit) THEN flags ELSE flags + bit

\* BanksDump::InstrumentEntry of a 2-operator instrument whose two operators
\* are entry o of the shared operator table
InstrumentEntry(o) ==
    [ops |-> <<o, o, -1, -1>>, fbConn |-> 0, noteOffset1 |-> 0, noteOffset2 |-> 0,
     percussionKeyNumber |-> 0, instFlags |-> 0, secondVoiceDetune |-> 0,
     delay_on_ms |-> 0, delay_off_ms |-> 0]

\* DurationInfo
DurationInfo(kon, koff, nosound, peakTime, peakValue, beginAmp, quarter, keyoff) ==
    [ms_sound_kon |-> kon, ms_sound_koff |-> koff, nosound |-> nosound,
     peak_amplitude_time |-> peakTime, peak_amplitude_value |-> peakValue,
     begin_amplitude |-> beginAmp, quarter_amplitude_time |-> quarter,
     keyoff_out_time |-> keyoff]

NoInfo == DurationInfo(0, 0, FALSE, 0, 0, 0, 0, 0)

\* a plausible slip: the note offsets are left out of the key
OperatorsKey_NoOffsets(e) ==
    <<e.ops[1], e.ops[2], e.ops[3], e.ops[4], e.fbConn, 0,
      0, e.percussionKeyNumber, e.instFlags, e.secondVoiceDetune>>

\* OperatorsKey ok = {ops[0..3], fbConn, noteOffset1, noteOffset2,
\*                    percussionKeyNumber, instFlags, secondVoiceDetune}
OperatorsKey(e) ==
    <<e.ops[1], e.ops[2], e.ops[3], e.ops[4], e.fbConn, e.noteOffset1,
      e.noteOffset2, e.percussionKeyNumber, e.instFlags, e.secondVoiceDetune>>

\* a plausible slip: the measurement also depends on shared state that other
\* workers change, here on how many records are annotated already
MeasuredInfo_SharedState(d, e) ==
    LET c == d.operators[e.ops[1]]
        n == Cardinality({i \in DOMAIN d.instruments : d.instruments[i].delay_on_ms # 0})
    IN IF c = 0 THEN DurationInfo(6006 + n, 0, TRUE, 0, 0, 0, 901, 0)
       ELSE DurationInfo(40000 + n, 20 * c, FALSE, 3 * c, 50 * c, 10 * c, 6000, 3 * c)

\* What MeasureDurations(db, ins, chip) returns for an instrument, as a
\* function of the operator content it programs: operator content 0 gives no
\* sound, every other content a sound whose timing depends on the content.
MeasuredInfo(d, e) ==
    LET c == d.operators[e.ops[1]] IN
    IF c = 0 THEN DurationInfo(6006, 0, TRUE, 0, 0, 0, 901, 0)
    ELSE DurationInfo(40000, 20 * c, FALSE, 3 * c, 50 * c, 10 * c, 6000, 3 * c)

\* a plausible slip: the delays are copied and the blank flag is forgotten
Annotate_DelaysOnly(e, di) ==
    [e EXCEPT !.delay_on_ms = di.ms_sound_kon,
              !.delay_off_ms = di.ms_sound_koff]

\* The in-place annotation of the instrument record:
\* delay_on_ms, delay_off_ms and, when nosound, instFlags |= WOPL_Ins_IsBlank
Annotate(e, di) ==
    [e EXCEPT !.delay_on_ms = di.ms_sound_kon,
              !.delay_off_ms = di.ms_sound_koff,
              !.instFlags = IF di.nosound THEN SetFlag(@, WOPL_Ins_IsBlank) ELSE @]

\* The caches LoadCacheX may produce from the cache file of an earlier run:
\* nothing, or an entry for the instrument made of operator 0 (its fields
\* that the file does not hold are whatever the load left there).
LoadableCaches ==
    { [k \in {} |-> NoInfo] } \cup
    { [k \in {OperatorsKey(InstrumentEntry(0))} |->
          DurationInfo(kon, 9, ns, 0, 0, 0, 0, 0)] : kon \in {7}, ns \in BOOLEAN }

(***************************************************************************)
(* The compact cache file: what SaveCacheX writes                          *)
(***************************************************************************)
\* "ADLMIDI-DURATION-CACHE-FILE-V2.0"
MagicV2 == <<65, 68, 76, 77, 73, 68, 73, 45, 68, 85, 82, 65, 84, 73, 79, 78,
             45, 67, 65, 67, 72, 69, 45, 70, 73, 76, 69, 45, 86, 50, 46, 48>>

EmptyCache == [k \in {} |-> NoInfo]

\* the four bytes (v >> 0) & 0xFF, (v >> 8) & 0xFF, (v >> 16) & 0xFF,
\* (v >> 24) & 0xFF of a signed value
Bytes32LE(v) ==
    <<v % 256, (v \div 256) % 256, (v \div 65536) % 256, (v \div 16777216) % 256>>

\* the two bytes (v >> 0) & 0xFF, (v >> 8) & 0xFF
Bytes16LE(v) == <<v % 256, (v \div 256) % 256>>

\* toSint32LE (file_formats/common.h): four little-endian bytes as int32
toSint32LE(b) ==
    b[1] + 256 * b[2] + 65536 * b[3] +
    16777216 * (IF b[4] >= 128 THEN b[4] - 256 ELSE b[4])

\* toUint32LE (file_formats/common.h); the files of the model keep the top
\* byte of the record count below 128
toUint32LE(b) == b[1] + 256 * b[2] + 65536 * b[3] + 16777216 * b[4]

\* a plausible slip: the two bytes read as a signed 16-bit value
toUint16LE_Signed(b) == b[1] + 256 * (IF b[2] >= 128 THEN b[2] - 256 ELSE b[2])

\* toUint16LE (file_formats/common.h)
toUint16LE(b) == b[1] + 256 * b[2]

\* lexicographic order of std::array, the order std::map iterates in
RECURSIVE KeyLessFrom(_, _, _)
KeyLessFrom(a, b, i) ==
    IF i > Len(a) THEN FALSE
    ELSE IF a[i] < b[i] THEN TRUE
    ELSE IF a[i] > b[i] THEN FALSE
    ELSE KeyLessFrom(a, b, i + 1)

KeyLess(a, b) == KeyLessFrom(a, b, 1)

\* the keys of a map in iteration order
RECURSIVE SortedKeys(_)
SortedKeys(S) ==
    IF S = {} THEN <<>>
    ELSE LET m == CHOOSE x \in S : \A y \in S \ {x} : KeyLess(x, y)
         IN <<m>> \o SortedKeys(S \ {m})

\* the bytes of the ten key components
RECURSIVE KeyBytesFrom(_, _)
KeyBytesFrom(k, i) ==
    IF i > Len(k) THEN <<>> ELSE Bytes32LE(k[i]) \o KeyBytesFrom(k, i + 1)

\* a plausible slip: the release time is written from the attack time
ValueBytes_KonTwice(v) ==
    Bytes16LE(v.ms_sound_kon) \o Bytes16LE(v.ms_sound_kon) \o
    <<IF v.nosound THEN 1 ELSE 0>>

\* uint8_t data_k[5]: the low 16 bits of ms_sound_kon and of ms_sound_koff,
\* and the nosound flag
ValueBytes(v) ==
    Bytes16LE(v.ms_sound_kon) \o Bytes16LE(v.ms_sound_koff) \o
    <<IF v.nosound THEN 1 ELSE 0>>

\* the records SaveCacheX writes for the keys ks, in order
RECURSIVE RecordBytes(_, _, _)
RecordBytes(cache, ks, i) ==
    IF i > Len(ks) THEN <<>>
    ELSE KeyBytesFrom(ks[i], 1) \o ValueBytes(cache[ks[i]]) \o
         RecordBytes(cache, ks, i + 1)

\* the file SaveCacheX writes: magic, record count, records
SaveCacheXBytes(cache) ==
    MagicV2 \o Bytes32LE(Cardinality(DOMAIN cache)) \o
    RecordBytes(cache, SortedKeys(DOMAIN cache), 1)

(***************************************************************************)
(* Semaphore and destData (declared in measurer.h)                         *)
(***************************************************************************)
\* Semaphore::wait() can return: the count is positive
SemaphoreCanWait == m_semaphore > 0

\* destData::~destData() joins the worker thread: delete returns only after
\* the callback of that task has returned
destDataJoinable(t) == w_pc[t] = "exited"

(***************************************************************************)
(* MeasureThreaded                                                         *)
(***************************************************************************)
\* the scheduler before its constructor's work is used, the database aside
SchedIdleButDb ==
    /\ hw = 0
    /\ m_semaphore = 0
    /\ m_durationInfo_mx = 0
    /\ m_durationInfoX = [k \in {} |-> NoInfo]
    /\ m_done = 0
    /\ m_cache_matches = 0
    /\ m_total = 0
    /\ m_threads = <<>>
    /\ main_pc = "idle"
    /\ main_b = 1
    /\ main_i = 1
    /\ w_pc = [t \in Tasks |-> "queued"]
    /\ m_works = [t \in Tasks |-> FALSE]
    /\ w_ok = [t \in Tasks |-> <<>>]
    /\ w_atEnd = [t \in Tasks |-> FALSE]
    /\ w_info = [t \in Tasks |-> NoInfo]
    /\ w_chipOps = [t \in Tasks |-> 0]
    /\ preloaded = {}
    /\ s_bd = TRUE
    /\ m_durationInfo = [k \in {} |-> NoInfo]
    /\ isSilent = <<>>
    /\ w_writes = [t \in Tasks |-> <<>>]

SchedIdle ==
    /\ SchedIdleButDb
    /\ db = [instruments |-> <<>>, operators |-> <<>>]

\* MeasureThreaded::MeasureThreaded(): m_semaphore(hardware_concurrency() * 2)
Capacity == 2 * hw

\* gen_adldata.cc main: LoadCacheX(...); m_cache_matches = 0; m_done = 0;
\* m_total = db.instruments.size()
MainLoadCacheX ==
    /\ main_pc = "load"
    /\ s_bd
    /\ \E c \in LoadableCaches :
          /\ m_durationInfoX' = c
          /\ preloaded' = DOMAIN c
    /\ m_cache_matches' = 0
    /\ m_done' = 0
    /\ m_total' = Len(db.instruments)
    /\ main_pc' = "submit"
    /\ UNCHANGED <<hw, s_bd, w_writes, m_durationInfo, isSilent, m_semaphore, m_durationInfo_mx, m_threads, main_b, main_i,
                   db, w_pc, m_works, w_ok, w_atEnd, w_info, w_chipOps>>

\* the handles run() keeps: those whose m_works is still set
KeptHandles(threads) == SelectSeq(threads, LAMBDA t : m_works[t])

\* a plausible slip: run() deletes every handle it finds in m_threads
DeletedHandles_All(threads) == {threads[i] : i \in 1..Len(threads)}

\* the handles run() deletes: those whose m_works is cleared
DeletedHandles(threads) == {threads[i] : i \in {j \in 1..Len(threads) : ~m_works[threads[j]]}}

\* a plausible slip in run(): the semaphore is not waited on
RunGuard_NoWait == TRUE

\* m_semaphore.wait() at the head of run()
RunGuard == SemaphoreCanWait

\* MeasureThreaded::run(bd, e), called by main's loop for instrument main_b:
\* wait for a slot, delete the handles of finished tasks, start the thread of
\* the new task and push its handle
MainRun ==
    /\ main_pc = "submit"
    /\ main_b <= NumIns
    /\ RunGuard
    /\ m_semaphore' = m_semaphore - 1
    /\ m_threads' = Append(KeptHandles(m_threads), main_b)
    /\ w_pc' = [t \in Tasks |->
                  IF t = main_b THEN "key"
                  ELSE IF t \in DeletedHandles(m_threads) THEN "reaped"
                  ELSE w_pc[t]]
    /\ m_works' = [m_works EXCEPT ![main_b] = TRUE]
    /\ main_b' = main_b + 1
    /\ UNCHANGED <<hw, s_bd, w_writes, m_durationInfo, isSilent, m_durationInfo_mx, m_durationInfoX, m_done, m_cache_matches,
                   m_total, main_pc, main_i, db, w_ok, w_atEnd, w_info, w_chipOps,
                   preloaded>>

\* main's loop over db.instruments ends; waitAll() is entered
MainLoopEnd ==
    /\ main_pc = "submit"
    /\ main_b > NumIns
    /\ main_pc' = "waitAll"
    /\ main_i' = 1
    /\ UNCHANGED <<hw, s_bd, w_writes, m_durationInfo, isSilent, m_semaphore, m_durationInfo_mx, m_durationInfoX, m_done,
                   m_cache_matches, m_total, m_threads, main_b, db, w_pc, m_works,
                   w_ok, w_atEnd, w_info, w_chipOps, preloaded>>

\* a plausible slip in waitAll(): the handle is dropped without being deleted
WaitAllDeleteGuard_NoJoin(t) == TRUE

\* delete th in waitAll(): returns once the thread of th has been joined
WaitAllDeleteGuard(t) == destDataJoinable(t)

\* waitAll(): one iteration of for(auto &th : m_threads) delete th
MainWaitAllDelete ==
    /\ main_pc = "waitAll"
    /\ main_i <= Len(m_threads)
    /\ WaitAllDeleteGuard(m_threads[main_i])
    /\ w_pc' = [w_pc EXCEPT ![m_threads[main_i]] =
                   IF @ = "exited" THEN "reaped" ELSE @]
    /\ main_i' = main_i + 1
    /\ UNCHANGED <<hw, s_bd, w_writes, m_durationInfo, isSilent, m_semaphore, m_durationInfo_mx, m_durationInfoX, m_done,
                   m_cache_matches, m_total, m_threads, main_pc, main_b, db,
                   m_works, w_ok, w_atEnd, w_info, w_chipOps, preloaded>>

\* waitAll(): m_threads.clear(); printFinal(); return
MainWaitAllReturn ==
    /\ main_pc = "waitAll"
    /\ main_i > Len(m_threads)
    /\ m_threads' = <<>>
    /\ main_pc' = "save"
    /\ UNCHANGED <<hw, s_bd, w_writes, m_durationInfo, isSilent, m_semaphore, m_durationInfo_mx, m_durationInfoX, m_done,
                   m_cache_matches, m_total, main_b, main_i, db, w_pc, m_works,
                   w_ok, w_atEnd, w_info, w_chipOps, preloaded>>

\* a plausible slip: main saves the cache without calling waitAll() first
MainSaveCacheX_NoWaitAll ==
    /\ main_pc = "waitAll"
    /\ f_exists' = TRUE
    /\ f_bytes' = SaveCacheXBytes(m_durationInfoX)
    /\ main_pc' = "finished"
    /\ UNCHANGED <<hw, s_bd, w_writes, m_durationInfo, isSilent, m_semaphore, m_durationInfo_mx, m_durationInfoX, m_done,
                   m_cache_matches, m_total, m_threads, main_b, main_i, db, w_pc,
                   m_works, w_ok, w_atEnd, w_info, w_chipOps, preloaded>>

\* main: SaveCacheX(...) after waitAll() returned; f_exists and f_bytes are
\* the cache file as this run has written it
MainSaveCacheX ==
    /\ main_pc = "save"
    /\ f_exists' = TRUE
    /\ f_bytes' = SaveCacheXBytes(m_durationInfoX)
    /\ main_pc' = "finished"
    /\ UNCHANGED <<hw, s_bd, w_writes, m_durationInfo, isSilent, m_semaphore, m_durationInfo_mx, m_durationInfoX, m_done,
                   m_cache_matches, m_total, m_threads, main_b, main_i, db, w_pc,
                   m_works, w_ok, w_atEnd, w_info, w_chipOps, preloaded>>

(***************************************************************************)
(* MeasureThreaded::destData::callback, newer representation (s->bd set)   *)
(***************************************************************************)
\* OperatorsKey ok = {...}
WorkerKey(t) ==
    /\ w_pc[t] = "key"
    /\ s_bd
    /\ w_ok' = [w_ok EXCEPT ![t] = OperatorsKey(db.instruments[t])]
    /\ w_pc' = [w_pc EXCEPT ![t] = "lock1"]
    /\ UNCHANGED <<hw, s_bd, w_writes, m_durationInfo, isSilent, m_semaphore, m_durationInfo_mx, m_durationInfoX, m_done,
                   m_cache_matches, m_total, m_threads, main_pc, main_b, main_i,
                   db, m_works, w_atEnd, w_info, w_chipOps, preloaded>>

\* m_durationInfo_mx.lock() before the lookup
WorkerLock1(t) ==
    /\ w_pc[t] = "lock1"
    /\ m_durationInfo_mx = 0
    /\ m_durationInfo_mx' = t
    /\ w_pc' = [w_pc EXCEPT ![t] = "find"]
    /\ UNCHANGED <<hw, s_bd, w_writes, m_durationInfo, isSilent, m_semaphore, m_durationInfoX, m_done, m_cache_matches,
                   m_total, m_threads, main_pc, main_b, main_i, db, m_works, w_ok,
                   w_atEnd, w_info, w_chipOps, preloaded>>

\* a plausible slip: the lookup result is ignored and every task measures
CacheAtEnd_Always(cache, key) == TRUE

\* cachedEntry = m_durationInfoX.find(ok); atEnd = cachedEntry == end()
CacheAtEnd(cache, key) == key \notin DOMAIN cache

\* a plausible slip: one critical section spanning the measurement, the
\* mutex is released after the lookup only on a hit
WorkerFind_LockAcrossMeasure(t) ==
    /\ w_pc[t] = "find"
    /\ s_bd
    /\ w_atEnd' = [w_atEnd EXCEPT ![t] = CacheAtEnd(m_durationInfoX, w_ok[t])]
    /\ m_durationInfo_mx' = IF CacheAtEnd(m_durationInfoX, w_ok[t]) THEN t ELSE 0
    /\ w_pc' = [w_pc EXCEPT ![t] =
                   IF CacheAtEnd(m_durationInfoX, w_ok[t]) THEN "measure" ELSE "hit"]
    /\ UNCHANGED <<hw, s_bd, w_writes, m_durationInfo, isSilent, m_semaphore, m_durationInfoX, m_done,
                   m_cache_matches, m_total, m_threads, main_pc, main_b, main_i, db,
                   m_works, w_ok, w_info, w_chipOps, preloaded>>

\* find, atEnd, m_durationInfo_mx.unlock(), and the branch on atEnd
WorkerFind(t) ==
    /\ w_pc[t] = "find"
    /\ s_bd
    /\ w_atEnd' = [w_atEnd EXCEPT ![t] = CacheAtEnd(m_durationInfoX, w_ok[t])]
    /\ m_durationInfo_mx' = 0
    /\ w_pc' = [w_pc EXCEPT ![t] =
                   IF CacheAtEnd(m_durationInfoX, w_ok[t]) THEN "measure" ELSE "hit"]
    /\ UNCHANGED <<hw, s_bd, w_writes, m_durationInfo, isSilent, m_semaphore, m_durationInfoX, m_done, m_cache_matches,
                   m_total, m_threads, main_pc, main_b, main_i, db, m_works, w_ok,
                   w_info, w_chipOps, preloaded>>

\* the hit branch: copy the cached entry into the record, m_cache_matches++,
\* goto endWork
WorkerHit(t) ==
    /\ w_pc[t] = "hit"
    /\ s_bd
    /\ db' = [db EXCEPT !.instruments[t] = Annotate(@, m_durationInfoX[w_ok[t]])]
    /\ m_cache_matches' = m_cache_matches + 1
    /\ w_pc' = [w_pc EXCEPT ![t] = "endWork"]
    /\ UNCHANGED <<hw, s_bd, w_writes, m_durationInfo, isSilent, m_semaphore, m_durationInfo_mx, m_durationInfoX, m_done,
                   m_total, m_threads, main_pc, main_b, main_i, m_works, w_ok,
                   w_atEnd, w_info, w_chipOps, preloaded>>

\* info = MeasureDurations(*s->bd, *s->bd_ins, &dosbox) is entered: the chip
\* is reset and programmed
WorkerMeasureBegin(t) ==
    /\ w_pc[t] = "measure"
    /\ w_chipOps' = [w_chipOps EXCEPT ![t] = @ + 1]
    /\ w_pc' = [w_pc EXCEPT ![t] = "measuring"]
    /\ UNCHANGED <<hw, s_bd, w_writes, m_durationInfo, isSilent, m_semaphore, m_durationInfo_mx, m_durationInfoX, m_done,
                   m_cache_matches, m_total, m_threads, main_pc, main_b, main_i,
                   db, m_works, w_ok, w_atEnd, w_info, preloaded>>

\* BanksDump::isSilent(db, ins)
SilentGuess(d, e) == isSilent[d.operators[e.ops[1]]]

\* a plausible slip: only a measured silence is checked against the guess
SilenceMismatch_OnlySilent(d, e) == MeasuredInfo(d, e).nosound /\ ~SilentGuess(d, e)

\* silent1 != silent2: the measured nosound differs from the independent guess
SilenceMismatch(d, e) == MeasuredInfo(d, e).nosound # SilentGuess(d, e)

\* a plausible slip: MeasureDurations only returns its result and leaves the
\* record alone, so that only the hit branch annotates
WorkerMeasureEnd_ReturnOnly(t) ==
    /\ w_pc[t] = "measuring"
    /\ s_bd
    /\ w_chipOps' = [w_chipOps EXCEPT ![t] = @ + 1]
    /\ IF SilenceMismatch(db, db.instruments[t])
       THEN /\ w_pc' = [w_pc EXCEPT ![t] = "exit1"]
            /\ UNCHANGED w_info
       ELSE /\ w_info' = [w_info EXCEPT ![t] = MeasuredInfo(db, db.instruments[t])]
            /\ w_pc' = [w_pc EXCEPT ![t] = "lock2"]
    /\ UNCHANGED <<hw, s_bd, w_writes, m_durationInfo, isSilent, m_semaphore, m_durationInfo_mx,
                   m_durationInfoX, m_done, m_cache_matches, m_total, m_threads,
                   main_pc, main_b, main_i, db, m_works, w_ok, w_atEnd, preloaded>>

\* MeasureDurations generates and analyses the audio, annotates the record
\* and either returns or, when its nosound differs from BanksDump::isSilent,
\* prints the diagnostic and calls exit(1): the worker never leaves the call
WorkerMeasureEnd(t) ==
    /\ w_pc[t] = "measuring"
    /\ s_bd
    /\ w_chipOps' = [w_chipOps EXCEPT ![t] = @ + 1]
    /\ db' = [db EXCEPT !.instruments[t] =
                 Annotate(@, MeasuredInfo(db, db.instruments[t]))]
    /\ IF SilenceMismatch(db, db.instruments[t])
       THEN /\ w_pc' = [w_pc EXCEPT ![t] = "exit1"]
            /\ UNCHANGED w_info
       ELSE /\ w_info' = [w_info EXCEPT ![t] = MeasuredInfo(db, db.instruments[t])]
            /\ w_pc' = [w_pc EXCEPT ![t] = "lock2"]
    /\ UNCHANGED <<hw, s_bd, w_writes, m_durationInfo, isSilent, m_semaphore, m_durationInfo_mx, m_durationInfoX, m_done,
                   m_cache_matches, m_total, m_threads, main_pc, main_b, main_i,
                   m_works, w_ok, w_atEnd, preloaded>>

\* a plausible slip: a worker that finds the mutex taken measures again
\* instead of waiting
WorkerLock2_Remeasure(t) ==
    /\ w_pc[t] = "lock2"
    /\ m_durationInfo_mx' = IF m_durationInfo_mx = 0 THEN t ELSE m_durationInfo_mx
    /\ w_pc' = [w_pc EXCEPT ![t] = IF m_durationInfo_mx = 0 THEN "insert" ELSE "measure"]
    /\ UNCHANGED <<hw, s_bd, w_writes, m_durationInfo, isSilent, m_semaphore, m_durationInfoX, m_done,
                   m_cache_matches, m_total, m_threads, main_pc, main_b, main_i, db,
                   m_works, w_ok, w_atEnd, w_info, w_chipOps, preloaded>>

\* m_durationInfo_mx.lock() before the insert
WorkerLock2(t) ==
    /\ w_pc[t] = "lock2"
    /\ m_durationInfo_mx = 0
    /\ m_durationInfo_mx' = t
    /\ w_pc' = [w_pc EXCEPT ![t] = "insert"]
    /\ UNCHANGED <<hw, s_bd, w_writes, m_durationInfo, isSilent, m_semaphore, m_durationInfoX, m_done, m_cache_matches,
                   m_total, m_threads, main_pc, main_b, main_i, db, m_works, w_ok,
                   w_atEnd, w_info, w_chipOps, preloaded>>

\* a plausible slip: the map is assigned the new entry instead of having it
\* inserted
MapInsert_OnlyNewest(cache, key, value) == [k \in {key} |-> value]

\* std::map::insert: an existing entry for the key is kept as it is
MapInsert(cache, key, value) ==
    IF key \in DOMAIN cache THEN cache
    ELSE [k \in DOMAIN cache \cup {key} |-> IF k = key THEN value ELSE cache[k]]

\* m_durationInfoX.insert({ok, info}); m_durationInfo_mx.unlock()
WorkerInsert(t) ==
    /\ w_pc[t] = "insert"
    /\ s_bd
    /\ m_durationInfoX' = MapInsert(m_durationInfoX, w_ok[t], w_info[t])
    /\ m_durationInfo_mx' = 0
    /\ w_pc' = [w_pc EXCEPT ![t] = "endWork"]
    /\ UNCHANGED <<hw, s_bd, w_writes, m_durationInfo, isSilent, m_semaphore, m_done, m_cache_matches, m_total, m_threads,
                   main_pc, main_b, main_i, db, m_works, w_ok, w_atEnd, w_info,
                   w_chipOps, preloaded>>

\* a plausible slip: the hit branch leaves without releasing its slot
WorkerNotify_MissOnly(t) ==
    /\ w_pc[t] = "endWork"
    /\ m_semaphore' = IF w_atEnd[t] THEN m_semaphore + 1 ELSE m_semaphore
    /\ w_pc' = [w_pc EXCEPT ![t] = "count"]
    /\ UNCHANGED <<hw, s_bd, w_writes, m_durationInfo, isSilent, m_durationInfo_mx, m_durationInfoX, m_done,
                   m_cache_matches, m_total, m_threads, main_pc, main_b, main_i, db,
                   m_works, w_ok, w_atEnd, w_info, w_chipOps, preloaded>>

\* endWork: m_semaphore.notify()
WorkerNotify(t) ==
    /\ w_pc[t] = "endWork"
    /\ m_semaphore' = m_semaphore + 1
    /\ w_pc' = [w_pc EXCEPT ![t] = "count"]
    /\ UNCHANGED <<hw, s_bd, w_writes, m_durationInfo, isSilent, m_durationInfo_mx, m_durationInfoX, m_done, m_cache_matches,
                   m_total, m_threads, main_pc, main_b, main_i, db, m_works, w_ok,
                   w_atEnd, w_info, w_chipOps, preloaded>>

\* m_done++
WorkerCount(t) ==
    /\ w_pc[t] = "count"
    /\ m_done' = m_done + 1
    /\ w_pc' = [w_pc EXCEPT ![t] = "clearWorks"]
    /\ UNCHANGED <<hw, s_bd, w_writes, m_durationInfo, isSilent, m_semaphore, m_durationInfo_mx, m_durationInfoX,
                   m_cache_matches, m_total, m_threads, main_pc, main_b, main_i,
                   db, m_works, w_ok, w_atEnd, w_info, w_chipOps, preloaded>>

\* m_works = false, and the callback returns
WorkerExit(t) ==
    /\ w_pc[t] = "clearWorks"
    /\ m_works' = [m_works EXCEPT ![t] = FALSE]
    /\ w_pc' = [w_pc EXCEPT ![t] = "exited"]
    /\ UNCHANGED <<hw, s_bd, w_writes, m_durationInfo, isSilent, m_semaphore, m_durationInfo_mx, m_durationInfoX, m_done,
                   m_cache_matches, m_total, m_threads, main_pc, main_b, main_i,
                   db, w_ok, w_atEnd, w_info, w_chipOps, preloaded>>

\* positions of a task that run() has started and that has not yet reached
\* CacheHit or Computed (the label endWork); "exit1" is inside exit(1)
RunningPcs == {"key", "lock1", "find", "hit", "measure", "measuring", "lock2", "insert",
               "exit1"}

\* positions of a task whose callback has returned
FinishedPcs == {"exited", "reaped"}

(***************************************************************************)
(* MeasureThreaded::destData::callback, legacy representation (s->bd null) *)
(***************************************************************************)
\* the ins a legacy task refers to (s->i->first), as the tuple of the fields
\* its comparison looks at
InsKey(in) ==
    <<in.insno1, in.insno2, in.notenum, in.real4op, in.pseudo4op, in.voice2_fine_tune>>

\* What MeasureDurations(ins, chip) returns for a legacy instrument, as a
\* function of the insdata it programs: insdata 0 gives no sound, every other
\* one a sound whose timing depends on it.
LegacyMeasuredInfo(in) ==
    IF in.insno1 = 0 THEN DurationInfo(6006, 0, TRUE, 0, 0, 0, 901, 0)
    ELSE DurationInfo(40000, 20 * in.insno1, FALSE, 3 * in.insno1, 50 * in.insno1,
                      10 * in.insno1, 6000, 3 * in.insno1)

\* The caches LoadCache may produce from the legacy cache file of an earlier
\* run: nothing, or an entry for the instrument made of insdata 0 (LoadCache
\* zeroes the DurationInfo before it reads the three stored fields).
LegacyLoadableCaches ==
    { [k \in {} |-> NoInfo] } \cup
    { [k \in {<<0, 0, 0, FALSE, FALSE, 0>>} |-> DurationInfo(7, 9, ns, 0, 0, 0, 0, 0)] :
          ns \in BOOLEAN }

\* LoadCache(...) before a legacy run, and the counters main sets
MainLoadCache ==
    /\ main_pc = "load"
    /\ ~s_bd
    /\ \E c \in LegacyLoadableCaches :
          /\ m_durationInfo' = c
          /\ preloaded' = DOMAIN c
    /\ m_cache_matches' = 0
    /\ m_done' = 0
    /\ m_total' = Len(db.instruments)
    /\ main_pc' = "submit"
    /\ UNCHANGED <<hw, s_bd, w_writes, isSilent, m_semaphore, m_durationInfo_mx, m_durationInfoX,
                   m_threads, main_b, main_i, db, w_pc, m_works, w_ok, w_atEnd,
                   w_info, w_chipOps>>

\* const ins &ok = s->i->first
LegacyWorkerKey(t) ==
    /\ w_pc[t] = "key"
    /\ ~s_bd
    /\ w_ok' = [w_ok EXCEPT ![t] = InsKey(db.instruments[t])]
    /\ w_pc' = [w_pc EXCEPT ![t] = "lock1"]
    /\ UNCHANGED <<hw, s_bd, w_writes, m_durationInfo, isSilent, m_semaphore, m_durationInfo_mx,
                   m_durationInfoX, m_done, m_cache_matches, m_total, m_threads,
                   main_pc, main_b, main_i, db, m_works, w_atEnd, w_info,
                   w_chipOps, preloaded>>

\* m_durationInfo.find(ok), atEnd, m_durationInfo_mx.unlock(), and the branch
LegacyWorkerFind(t) ==
    /\ w_pc[t] = "find"
    /\ ~s_bd
    /\ w_atEnd' = [w_atEnd EXCEPT ![t] = CacheAtEnd(m_durationInfo, w_ok[t])]
    /\ m_durationInfo_mx' = 0
    /\ w_pc' = [w_pc EXCEPT ![t] =
                   IF CacheAtEnd(m_durationInfo, w_ok[t]) THEN "measure" ELSE "hit"]
    /\ UNCHANGED <<hw, s_bd, w_writes, m_durationInfo, isSilent, m_semaphore, m_durationInfoX, m_done,
                   m_cache_matches, m_total, m_threads, main_pc, main_b, main_i,
                   db, m_works, w_ok, w_info, w_chipOps, preloaded>>

\* the legacy hit branch: m_cache_matches++, goto endWork
LegacyWorkerHit(t) ==
    /\ w_pc[t] = "hit"
    /\ ~s_bd
    /\ m_cache_matches' = m_cache_matches + 1
    /\ w_pc' = [w_pc EXCEPT ![t] = "endWork"]
    /\ UNCHANGED <<hw, s_bd, w_writes, m_durationInfo, isSilent, m_semaphore, m_durationInfo_mx,
                   m_durationInfoX, m_done, m_total, m_threads, main_pc, main_b,
                   main_i, db, m_works, w_ok, w_atEnd, w_info, w_chipOps, preloaded>>

\* info = MeasureDurations(ok, &dosbox) returns
LegacyWorkerMeasureEnd(t) ==
    /\ w_pc[t] = "measuring"
    /\ ~s_bd
    /\ w_chipOps' = [w_chipOps EXCEPT ![t] = @ + 1]
    /\ w_info' = [w_info EXCEPT ![t] = LegacyMeasuredInfo(db.instruments[t])]
    /\ w_pc' = [w_pc EXCEPT ![t] = "lock2"]
    /\ UNCHANGED <<hw, s_bd, w_writes, m_durationInfo, isSilent, m_semaphore, m_durationInfo_mx,
                   m_durationInfoX, m_done, m_cache_matches, m_total, m_threads,
                   main_pc, main_b, main_i, db, m_works, w_ok, w_atEnd, preloaded>>

\* m_durationInfo.insert({ok, info}); m_durationInfo_mx.unlock()
LegacyWorkerInsert(t) ==
    /\ w_pc[t] = "insert"
    /\ ~s_bd
    /\ m_durationInfo' = MapInsert(m_durationInfo, w_ok[t], w_info[t])
    /\ m_durationInfo_mx' = 0
    /\ w_pc' = [w_pc EXCEPT ![t] = "endWork"]
    /\ UNCHANGED <<hw, s_bd, w_writes, isSilent, m_semaphore, m_durationInfoX, m_done, m_cache_matches,
                   m_total, m_threads, main_pc, main_b, main_i, db, m_works, w_ok,
                   w_atEnd, w_info, w_chipOps, preloaded>>

(***************************************************************************)
(* The compact cache file: what LoadCacheX reads                           *)
(***************************************************************************)
\* fread of n bytes at offset pos (bytes before pos are consumed) succeeds
CanRead(bytes, pos, n) == pos + n <= Len(bytes)

\* the n bytes following offset pos
Slice(bytes, pos, n) == [i \in 1..n |-> bytes[pos + i]]

\* the ten key components read at offset pos
KeyAt(bytes, pos) == [i \in 1..10 |-> toSint32LE(Slice(bytes, pos + 4 * (i - 1), 4))]

\* DurationInfo v as LoadCacheX leaves it: the three fields it assigns, and
\* the fields it never assigns, which keep whatever the object held (junk)
ValueAt(bytes, pos, junk) ==
    [junk EXCEPT !.ms_sound_kon = toUint16LE(Slice(bytes, pos, 2)),
                 !.ms_sound_koff = toUint16LE(Slice(bytes, pos + 2, 2)),
                 !.nosound = (bytes[pos + 5] = 1)]

\* a plausible slip: an all-or-nothing load, which empties the map when a
\* record comes up short
RECURSIVE LoadRecords_AllOrNothing(_, _, _, _, _)
LoadRecords_AllOrNothing(bytes, pos, itemsCount, cache, junk) ==
    IF itemsCount = 0 THEN [cache |-> cache, log |-> "loaded"]
    ELSE IF ~CanRead(bytes, pos, 45) THEN [cache |-> EmptyCache, log |-> "unexpected end of file"]
    ELSE LoadRecords_AllOrNothing(bytes, pos + 45, itemsCount - 1,
                     MapInsert(cache, KeyAt(bytes, pos), ValueAt(bytes, pos + 40, junk)),
                     junk)

\* the while loop of LoadCacheX from offset pos with itemsCount records
\* still expected: the resulting map and the message printed
RECURSIVE LoadRecords(_, _, _, _, _)
LoadRecords(bytes, pos, itemsCount, cache, junk) ==
    IF itemsCount = 0 THEN [cache |-> cache, log |-> "loaded"]
    ELSE IF ~CanRead(bytes, pos, 40) THEN [cache |-> cache, log |-> "unexpected end of file"]
    ELSE IF ~CanRead(bytes, pos + 40, 5) THEN [cache |-> cache, log |-> "unexpected end of file"]
    ELSE LoadRecords(bytes, pos + 45, itemsCount - 1,
                     MapInsert(cache, KeyAt(bytes, pos), ValueAt(bytes, pos + 40, junk)),
                     junk)

\* LoadCacheX(fileName): m_durationInfoX.clear(), then the checks and the loop
LoadCacheXResult(exists, bytes, junk) ==
    IF ~exists THEN [cache |-> EmptyCache, log |-> "file is not exists"]
    ELSE IF ~CanRead(bytes, 0, 32) THEN [cache |-> EmptyCache, log |-> "can't read magic"]
    ELSE IF Slice(bytes, 0, 32) # MagicV2 THEN [cache |-> EmptyCache, log |-> "magic missmatch"]
    ELSE IF ~CanRead(bytes, 32, 4) THEN [cache |-> EmptyCache, log |-> "can't read cache size value"]
    ELSE LoadRecords(bytes, 36, toUint32LE(Slice(bytes, 32, 4)), EmptyCache, junk)

\* the keys of the caches the model saves
CacheKeyA == <<0, 0, -1, -1, 0, 0, 0, 0, 0, 0>>
CacheKeyB == <<1, 2, -1, -1, 257, -12, 0, 35, 4, -3>>

\* the results of the caches the model saves
CacheValues ==
    { DurationInfo(40000, 59993, FALSE, 17, 3, 2, 6000, 8999),
      DurationInfo(6006, 0, TRUE, 0, 0, 0, 901, 0),
      DurationInfo(65543, 300, FALSE, 1, 1, 1, 1, 1) }

\* the caches that are saved: every map from a subset of the two keys
CachesToSave ==
    UNION { [ks -> CacheValues] : ks \in SUBSET {CacheKeyA, CacheKeyB} }

\* what a DurationInfo object may hold in the fields LoadCacheX never assigns
JunkValues ==
    { NoInfo, DurationInfo(0, 0, FALSE, 17, 3, 2, 6000, 8999) }

CacheIdle ==
    /\ f_exists = FALSE
    /\ f_bytes = <<>>
    /\ c_pc = "idle"
    /\ c_saved = EmptyCache
    /\ c_log = ""
    /\ c_damage = "none"

\* SaveCacheX(fileName)
CacheSave ==
    /\ c_pc = "start"
    /\ f_exists' = TRUE
    /\ f_bytes' = SaveCacheXBytes(m_durationInfoX)
    /\ c_saved' = m_durationInfoX
    /\ c_pc' = "saved"
    /\ UNCHANGED <<c_log, c_damage, m_durationInfoX>>

\* between two runs the file is removed
FileRemove ==
    /\ c_pc = "saved"
    /\ f_exists' = FALSE
    /\ f_bytes' = <<>>
    /\ c_damage' = "removed"
    /\ c_pc' = "damaged"
    /\ UNCHANGED <<c_saved, c_log, m_durationInfoX>>

\* between two runs the file is cut to a shorter length
FileTruncate ==
    /\ c_pc = "saved"
    /\ \E n \in 0..(Len(f_bytes) - 1) : f_bytes' = SubSeq(f_bytes, 1, n)
    /\ c_damage' = "truncated"
    /\ c_pc' = "damaged"
    /\ UNCHANGED <<f_exists, c_saved, c_log, m_durationInfoX>>

\* the file is one of another format version: byte 30 of the magic differs
FileOtherMagic ==
    /\ c_pc = "saved"
    /\ f_bytes' = [f_bytes EXCEPT ![30] = 49]
    /\ c_damage' = "magic"
    /\ c_pc' = "damaged"
    /\ UNCHANGED <<f_exists, c_saved, c_log, m_durationInfoX>>

\* LoadCacheX(fileName) of the next run
CacheLoad ==
    /\ c_pc \in {"start", "saved", "damaged"}
    /\ \E junk \in JunkValues :
          LET r == LoadCacheXResult(f_exists, f_bytes, junk) IN
          /\ m_durationInfoX' = r.cache
          /\ c_log' = r.log
    /\ c_pc' = "loaded"
    /\ UNCHANGED <<f_exists, f_bytes, c_saved, c_damage>>

(***************************************************************************)
(* The chip behind OPLChipBase                                             *)
(*                                                                         *)
(* The chip is a deterministic function of the registers written to it and *)
(* of the samples generated since the last key edge of channel 0.  Its     *)
(* sound is a family of envelopes selected by the register content; every  *)
(* envelope is piecewise constant in analysis periods (1/150 s) and the    *)
(* samples alternate in sign.                                              *)
(***************************************************************************)

\* const unsigned interval = 150: analysis periods per second
interval == 150

\* generated samples per analysis period (49716 / 150 in the program)
RateScale == 2

\* the limits of MeasureDurations, in seconds
max_silent == 6
max_on == 40
max_off == 60

\* unsigned max_period_on = max_on * interval, max_period_off = max_off * interval
max_period_on == max_on * interval
\* a plausible slip: the release limit is a second too long
max_period_off_OneMore == (max_off + 1) * interval

max_period_off == max_off * interval

\* g_outputRate, scaled so that a period is RateScale samples
g_outputRate == RateScale * interval

\* const unsigned samples_per_interval = g_outputRate / interval
samples_per_interval == g_outputRate \div interval

\* audioHistory.reset(std::ceil(historyLength * g_outputRate)): the history
\* spans more than one period (15 periods in the program, two here)
HistoryCapacity == samples_per_interval + 2

\* Envelopes: on and off are sequences of <<first period, amplitude>>;
\* amplitude -1 after key-off holds the level the note had at key-off
Envelopes == <<
    [on |-> << <<0, 0>> >>,                              off |-> << <<0, 0>> >>],
    [on |-> << <<0, 1>> >>,                              off |-> << <<0, -1>>, <<2, 0>> >>],
    [on |-> << <<0, 1>> >>,                              off |-> << <<0, 2>>, <<4, 0>> >>],
    [on |-> << <<0, 1>> >>,                              off |-> << <<0, 20>>, <<4, 0>> >>],
    [on |-> << <<0, 5>>, <<8, 0>> >>,                    off |-> << <<0, 0>> >>],
    [on |-> << <<0, 30>>, <<10, 0>> >>,                  off |-> << <<0, 0>> >>],
    [on |-> << <<0, 30>> >>,                             off |-> << <<0, -1>> >>],
    [on |-> << <<0, 2>>, <<950, 30>>, <<1000, 0>> >>,    off |-> << <<0, -1>>, <<5, 0>> >>],
    [on |-> << <<0, 20>>, <<5, 0>>, <<20, 30>>, <<30, 0>> >>, off |-> << <<0, 0>> >>],
    [on |-> << <<0, 18>>, <<3, 0>> >>,                   off |-> << <<0, 0>> >>],
    [on |-> << <<0, 19>>, <<3, 0>> >>,                   off |-> << <<0, 0>> >>],
    [on |-> << <<0, 2>>, <<3100, 30>>, <<3105, 0>> >>,   off |-> << <<0, -1>> >>],
    [on |-> << <<0, 30>> >>,                             off |-> << <<0, -1>>, <<8998, 0>> >>],
    [on |-> << <<0, 1>> >>,                              off |-> << <<0, -1>> >>],
    [on |-> << <<0, 30>>, <<10, 3>> >>,                  off |-> << <<0, -1>> >>]
>>

\* the amplitude an envelope segment list gives at period p
EnvelopeAt(segs, p) ==
    LET last == CHOOSE i \in 1..Len(segs) :
                    /\ segs[i][1] <= p
                    /\ \A j \in 1..Len(segs) : segs[j][1] <= p => j <= i
    IN segs[last][2]

\* a chip right after construction
FreshChip == [regs |-> [a \in {} |-> 0], phase |-> "idle", clock |-> 0, offAmp |-> 0]

\* the content of a register (0 until written)
ChipReg(c, addr) == IF addr \in DOMAIN c.regs THEN c.regs[addr] ELSE 0

\* the envelope the programmed registers select: register 0x20 of the first
\* operator of channel 0
ChipEnvelope(c) ==
    LET k == ChipReg(c, 32) IN
    IF k < Len(Envelopes) THEN Envelopes[k + 1] ELSE Envelopes[1]

\* the level of the envelope now
ChipLevel(c) ==
    LET p == c.clock \div samples_per_interval IN
    CASE c.phase = "idle" -> 0
      [] c.phase = "on" -> EnvelopeAt(ChipEnvelope(c).on, p)
      [] c.phase = "off" ->
            LET a == EnvelopeAt(ChipEnvelope(c).off, p) IN
            IF a = -1 THEN c.offAmp ELSE a

\* the next sample of the left channel: four-operator mode (register 0x104)
\* doubles the level
ChipSample(c) ==
    LET gain == IF ChipReg(c, 260) # 0 THEN 2 ELSE 1 IN
    IF c.clock % 2 = 0 THEN gain * ChipLevel(c) ELSE -(gain * ChipLevel(c))

\* generate() of one frame
ChipAdvance(c) == [c EXCEPT !.clock = @ + 1]

\* a sequence of writeReg(addr, val) calls, made in order with no sample
\* generated in between.  A register holds the value last written to it;
\* bit 0x20 of register 0xB0 keys channel 0: every change of the bit restarts
\* the sample clock, and a change to 0 latches the level the note had.
ChipWriteAll(c, writes) ==
    LET n == Len(writes)
        Last(S) == CHOOSE i \in S : \A j \in S : j <= i
        RegsAfter(i) ==
            [a \in DOMAIN c.regs \cup {writes[j][1] : j \in 1..i} |->
                LET js == {j \in 1..i : writes[j][1] = a} IN
                IF js = {} THEN c.regs[a] ELSE writes[Last(js)][2]]
        keyWrites == {i \in 1..n : writes[i][1] = 176}
        KeyedAfter(i) ==
            LET js == {j \in keyWrites : j <= i} IN
            IF js = {} THEN c.phase = "on" ELSE (writes[Last(js)][2] \div 32) % 2 = 1
        edges == {i \in keyWrites : KeyedAfter(i) # KeyedAfter(i - 1)}
        offEdges == {i \in edges : ~KeyedAfter(i)}
        Before(i) == [regs |-> RegsAfter(i - 1), phase |-> "on",
                      clock |-> IF {e \in edges : e < i} = {} THEN c.clock ELSE 0,
                      offAmp |-> c.offAmp]
    IN [regs |-> RegsAfter(n),
        phase |-> IF KeyedAfter(n) THEN "on" ELSE IF edges # {} THEN "off" ELSE c.phase,
        clock |-> IF edges = {} THEN c.clock ELSE 0,
        offAmp |-> IF offEdges = {} THEN c.offAmp ELSE ChipLevel(Before(Last(offEdges)))]

\* writeReg(addr, val)
ChipWriteReg(c, addr, val) == ChipWriteAll(c, << <<addr, val>> >>)

(***************************************************************************)
(* TinySynth                                                               *)
(***************************************************************************)

\* g_operatorsMap (index from 0)
g_operatorsMap == <<0, 3, 1, 4, 2, 5, 8, 11, 9, 12, 10, 13, 16, 19, 17, 20, 18, 21,
                    256, 259, 257, 260, 258, 261, 264, 267, 265, 268, 266, 269,
                    272, 275, 273, 276, 274, 277,
                    16, 19, 4095, 20, 18, 4095, 4095, 21, 17, 4095,
                    16, 19, 20, 4095, 18, 4095, 21, 4095, 17, 4095>>

\* g_channelsMap (index from 0)
g_channelsMap == <<0, 1, 2, 3, 4, 5, 6, 7, 8,
                   256, 257, 258, 259, 260, 261, 262, 263, 264,
                   6, 7, 8, 8, 8>>

\* the operator table of the bank (BanksDump::operators, index from 0):
\* d_E862 as its four bytes, lowest first (registers 0x20, 0x60, 0x80, 0xE0)
BankOperators ==
    [i \in 1..Len(Envelopes) |-> [d_E862 |-> <<i - 1, 0, 0, 0>>, d_40 |-> 0]] \o
    << [d_E862 |-> <<64 + 1, 0, 0, 0>>, d_40 |-> 0] >>

\* db.operators[i]; the code asserts i >= 0 before it reads
OperatorAt(i) ==
    IF i + 1 \in DOMAIN db.operators THEN db.operators[i + 1]
    ELSE [d_E862 |-> <<0, 0, 0, 0>>, d_40 |-> 0]

\* insdatatab of the legacy representation: insdata (11 bytes, finetune)
\* with the id it is registered under
insdatatab ==
    [i \in 1..Len(Envelopes) |->
        [id |-> i - 1, data |-> <<i - 1, 0, 0, 0, 0, 0, 0, 0, 0, 0, 0>>, finetune |-> 0]] \o
    << [id |-> Len(Envelopes),
        data |-> <<64 + 1, 128 + 2, 3, 4, 5, 6, 7, 0, 9, 10, 14>>, finetune |-> 12],
       [id |-> Len(Envelopes) + 1,
        data |-> <<192 + 3, 255, 0, 0, 0, 0, 0, 0, 0, 0, 1>>, finetune |-> -12] >>

\* the legacy instrument whose two voices are insdata k
LegacyIns(k) ==
    [insno1 |-> k, insno2 |-> k, notenum |-> 0, real4op |-> FALSE, pseudo4op |-> FALSE,
     voice2_fine_tune |-> 0]

\* rawData[n] = j->first for the entry registered under id k
RawData(k) == CHOOSE d \in {insdatatab[i] : i \in DOMAIN insdatatab} : d.id = k

\* a TinySynth before setInstrument
NoSynth == [m_notesNum |-> 0, m_actualNotesNum |-> 0, m_isReal4op |-> FALSE,
            m_isPseudo4op |-> FALSE, m_playNoteNum |-> 0, m_voice1Detune |-> 0,
            m_noteOffsets |-> <<0, 0>>, m_x |-> <<0, 0>>]

\* resetChip(): key-off of the 18 channels, then initdata
resetChip(c) ==
    ChipWriteAll(c, [a \in 1..18 |-> <<176 + g_channelsMap[a], 0>>] \o
                    << <<4, 96>>, <<4, 128>>, <<261, 0>>, <<261, 1>>, <<261, 0>>,
                       <<1, 32>>, <<189, 0>> >>)

\* v | 0x30
Or0x30(v) == v - ((v \div 16) % 4) * 16 + 48

\* patchdata of the legacy setInstrument (index from 0)
patchdata == <<32, 35, 96, 99, 128, 131, 224, 227, 64, 67, 192>>

\* the registers the legacy setInstrument writes for voice n
LegacyVoiceWrites(n, raw) ==
    LET d == [a \in 1..11 |-> IF a <= 2 THEN raw.data[a] % 64 ELSE raw.data[a]] IN
    [a \in 1..10 |-> <<patchdata[a] + n * 8, d[a]>>] \o
    << <<patchdata[11] + n * 8, Or0x30(d[11])>> >>

\* a plausible slip: the default note is chosen before the key is reduced
PlayNoteNum_DefaultFirst(key, default) ==
    IF key = 0 THEN default ELSE IF key >= 128 THEN key - 128 ELSE key

\* m_playNoteNum = key >= 128 ? (key - 128) : key;
\* if(m_playNoteNum == 0) m_playNoteNum = default (25 legacy, 60 newer)
PlayNoteNum(key, default) ==
    LET note == IF key >= 128 THEN key - 128 ELSE key IN
    IF note = 0 THEN default ELSE note

\* TinySynth::setInstrument(const ins &in): the synth fields and the chip
LegacySetInstrument(c, in) ==
    LET raw == <<RawData(in.insno1), RawData(in.insno2)>>
        real == in.real4op /\ ~in.pseudo4op
        notes == IF in.insno1 = in.insno2 THEN 1 ELSE 2
    IN [synth |-> [m_notesNum |-> notes,
                   m_actualNotesNum |-> IF real THEN 1 ELSE notes,
                   m_isReal4op |-> real,
                   m_isPseudo4op |-> in.pseudo4op,
                   m_playNoteNum |-> PlayNoteNum(in.notenum, 25),
                   m_voice1Detune |-> IF in.pseudo4op THEN in.voice2_fine_tune ELSE 0,
                   m_noteOffsets |-> <<raw[1].finetune, raw[2].finetune>>,
                   m_x |-> <<0, 0>>],
        chip |-> ChipWriteAll(c,
                    << <<260, IF in.real4op THEN 63 ELSE 0>> >> \o
                    LegacyVoiceWrites(0, raw[1]) \o
                    (IF notes = 2 THEN LegacyVoiceWrites(1, raw[2]) ELSE <<>>))]

\* a plausible slip: any flag set makes the instrument four-operator
Is4ops_AnyFlag(flags) == flags # 0 /\ ~HasFlag(flags, WOPL_Ins_Pseudo4op)

\* is4ops = ((instFlags & WOPL_Ins_4op) != 0) && !isPseudo4ops
Is4ops(flags) == HasFlag(flags, WOPL_Ins_4op) /\ ~HasFlag(flags, WOPL_Ins_Pseudo4op)

\* a plausible slip: the mask clears the tremolo bit only
MaskTremoloVibrato_TremoloOnly(op) == [op EXCEPT !.d_E862[1] = @ % 128]

\* d_E862 &= 0xFFFFFF3F: bits 6 and 7 of the low byte are cleared
MaskTremoloVibrato(op) == [op EXCEPT !.d_E862[1] = @ % 64]

\* the registers the newer setInstrument writes for voice n
VoiceWrites(n, e) ==
    LET o1 == g_operatorsMap[n * 2 + 1]
        o2 == g_operatorsMap[n * 2 + 2]
        x == OperatorAt(e.ops[n * 2 + 1])
        y == OperatorAt(e.ops[n * 2 + 2])
        x1 == MaskTremoloVibrato(x).d_E862
        y1 == MaskTremoloVibrato(y).d_E862
        data == <<32, 96, 128, 224>>
    IN << <<data[1] + o1, x1[1]>>, <<data[1] + o2, y1[1]>>,
          <<data[2] + o1, x1[2]>>, <<data[2] + o2, y1[2]>>,
          <<data[3] + o1, x1[3]>>, <<data[3] + o2, y1[3]>>,
          <<data[4] + o1, x1[4]>>, <<data[4] + o2, y1[4]>>,
          <<192 + n * 8, Or0x30((e.fbConn \div Pow2(8 * n)) % 256)>>,
          <<64 + o1, x.d_40 % 256>>, <<64 + o2, y.d_40 % 256>> >>

\* a plausible slip: the masking is applied to the entries of db.operators
\* themselves
OperatorsAfterSetInstrument_InPlace(table, e) ==
    [i \in DOMAIN table |->
        IF i - 1 \in {e.ops[1], e.ops[2]} THEN MaskTremoloVibrato(table[i]) ELSE table[i]]

\* db.operators after setInstrument: ops[0..3] are copies of the entries and
\* the masking is applied to the copies, the table is not written
OperatorsAfterSetInstrument(table, e) == table

\* the writeReg calls of the newer setInstrument, in order
SetInstrumentWrites(e) ==
    LET pseudo == HasFlag(e.instFlags, WOPL_Ins_Pseudo4op)
        real == Is4ops(e.instFlags)
    IN << <<260, IF real THEN 63 ELSE 0>> >> \o
       VoiceWrites(0, e) \o
       (IF real \/ pseudo THEN VoiceWrites(1, e) ELSE <<>>)

\* TinySynth::setInstrument(const BanksDump &db, const InstrumentEntry &ins)
SetInstrument(c, e) ==
    LET pseudo == HasFlag(e.instFlags, WOPL_Ins_Pseudo4op)
        real == Is4ops(e.instFlags)
        opsNum == IF real \/ pseudo THEN 4 ELSE 2
        notes == opsNum \div 2
    IN [synth |-> [m_notesNum |-> notes,
                   m_actualNotesNum |-> IF real THEN 1 ELSE notes,
                   m_isReal4op |-> real,
                   m_isPseudo4op |-> pseudo,
                   m_playNoteNum |-> PlayNoteNum(e.percussionKeyNumber, 60),
                   m_voice1Detune |-> IF pseudo THEN e.secondVoiceDetune ELSE 0,
                   m_noteOffsets |-> <<e.noteOffset1, e.noteOffset2>>,
                   m_x |-> <<0, 0>>],
        chip |-> ChipWriteAll(c, SetInstrumentWrites(e))]

\* the number of times while(hertz >= 1023.5) runs
RECURSIVE Halvings(_, _)
Halvings(h, j) == IF HertzAtLeast1023_5(h, j) THEN Halvings(h, j + 1) ELSE j

\* m_x[n] as noteOn computes it
NoteOnValue(note, offset) ==
    LET h == HertzClamp(Hertz1024(note, offset))
        j == Halvings(h, 0)
    IN 8192 + 1024 * j + HertzRound(h, j)

\* m_x after noteOn: zeroed, then set for the voices below m_actualNotesNum
NoteOnX(sy) ==
    [n \in 1..2 |-> IF n <= sy.m_actualNotesNum
                    THEN NoteOnValue(sy.m_playNoteNum, sy.m_noteOffsets[n])
                    ELSE 0]

\* the writeReg calls of noteOn, in order
NoteOnWrites(sy) ==
    LET x == NoteOnX(sy)
        w(n) == << <<160 + (n - 1) * 3, x[n] % 256>>,
                   <<176 + (n - 1) * 3, (x[n] \div 256) % 256>> >>
    IN w(1) \o (IF sy.m_actualNotesNum = 2 THEN w(2) ELSE <<>>)

\* TinySynth::noteOn()
noteOn(c, sy) ==
    [synth |-> [sy EXCEPT !.m_x = NoteOnX(sy)],
     chip |-> ChipWriteAll(c, NoteOnWrites(sy))]

\* a plausible slip: the key-off byte keeps the fraction bits only
And0xDF_LowBitsOnly(v) == v % 4

\* v & 0xDF
And0xDF(v) == v - ((v \div 32) % 2) * 32

\* the writeReg calls of noteOff, in order
NoteOffWrites(sy) ==
    LET w(n) == << <<176 + (n - 1) * 3, And0xDF((sy.m_x[n] \div 256) % 256)>> >> IN
    w(1) \o (IF sy.m_actualNotesNum = 2 THEN w(2) ELSE <<>>)

\* TinySynth::noteOff()
noteOff(c, sy) == ChipWriteAll(c, NoteOffWrites(sy))

(***************************************************************************)
(* MeasureDurations                                                        *)
(*                                                                         *)
(* RMS values are kept squared, in units of 1/RmsUnit, so that they stay   *)
(* integers: the comparisons of the code between RMS values are the same   *)
(* comparisons between their squares.                                      *)
(***************************************************************************)
RmsUnit == 57600

\* 2 * cos(2 * M_PI * i / m) for the m whose cosines are rational
CosTimes2(i, m) ==
    CASE m = 1 -> 2
      [] m = 2 -> IF i % 2 = 0 THEN 2 ELSE -2
      [] m = 3 -> IF i % 3 = 0 THEN 2 ELSE -1
      [] m = 4 -> <<2, 0, -2, 0>>[(i % 4) + 1]

\* HannWindow(w, n): w[i] = 0.5 * (1 - cos(2 pi i / (n - 1))), times 4
HannWindow(n) == [i \in 1..n |-> 2 - CosTimes2(i - 1, n - 1)]

RECURSIVE SumSeq(_)
SumSeq(s) == IF s = <<>> THEN 0 ELSE s[1] + SumSeq(Tail(s))

\* MeasureRMS(signal, window, length), squared, in units of 1/RmsUnit:
\* with a[i] = 4 * window[i] * signal[i] and A their sum, mean = A / (4 n) and
\* rms^2 = sum (n a[i] - A)^2 / (16 n^2 (n - 1))
MeasureRMS(signal, window, length) ==
    LET a == [i \in 1..length |-> window[i] * signal[i]]
        A == SumSeq(a)
        d == [i \in 1..length |-> (length * a[i] - A) * (length * a[i] - A)]
    IN SumSeq(d) * (RmsUnit \div (16 * length * length * (length - 1)))

\* rms < other * coefficient, where coefficient^2 = 1 / den
RmsBelow(rms, other, den) == rms <= (other - 1) \div den

\* rms <= other * coefficient, where coefficient^2 = 1 / den
RmsAtMost(rms, other, den) == rms <= other \div den

\* min_coefficient_on = 0.008 and min_coefficient_off = 0.2, as 1 / square
min_coefficient_on_den == 15625
min_coefficient_off_den == 25

\* the locals of MeasureDurations before the attack loop
MeasLocals ==
    [period |-> 0, winsize |-> 0, windows_passed_on |-> 0, windows_passed_off |-> 0,
     begin_amplitude |-> 0, peak_amplitude_value |-> 0, peak_amplitude_time |-> 0,
     quarter_amplitude_time |-> max_period_on, quarter_amplitude_time_found |-> FALSE,
     keyoff_out_time |-> 0, keyoff_out_time_found |-> FALSE,
     highest_sofar |-> 0, sound_min |-> 0, sound_max |-> 0]

\* what an observer of the chip notes down: the loudest sample magnitude
\* generated in each phase of the measurement, and the number of frames
\* generated since key-on when the peak RMS was measured (atPeak) and when
\* noteOff was called (atKeyOff)
NothingHeard == [attack |-> 0, replay |-> 0, release |-> 0, atPeak |-> 0, atKeyOff |-> 0]

MeasIdle ==
    /\ ms_pc = "idle"
    /\ ms_variant = "none"
    /\ ms_run = 0
    /\ ms_ins = <<>>
    /\ chip = FreshChip
    /\ synth = NoSynth
    /\ an = MeasLocals
    /\ ms_result = NoInfo
    /\ ms_first = NoInfo
    /\ ms_silent2 = {}
    /\ ms_heard = NothingHeard

\* the inner loops of one period: synth.generate in blocks, audioHistory.add
\* of every left sample, and the running sound_min / sound_max
GenerateFrame(g, s) ==
    [chip |-> ChipAdvance(g.chip),
     hist |-> HistAddTo(g.hist, s),
     sound_min |-> IF g.sound_min > s THEN s ELSE g.sound_min,
     sound_max |-> IF g.sound_max < s THEN s ELSE g.sound_max,
     loudest |-> Max(g.loudest, IF s < 0 THEN -s ELSE s)]

RECURSIVE Generate(_, _)
Generate(g, frames) ==
    IF frames = 0 THEN g
    ELSE CHOOSE r \in { Generate(next, frames - 1) :
                            next \in { GenerateFrame(g, s) : s \in {ChipSample(g.chip)} } } : TRUE

\* one period generated from the current state
GeneratePeriod(phase) ==
    Generate([chip |-> chip, hist |-> HistRec, sound_min |-> an.sound_min,
              sound_max |-> an.sound_max, loudest |-> ms_heard[phase]],
             samples_per_interval)

\* synth.resetChip(); synth.setInstrument(...); synth.noteOn()
Program ==
    \E r \in {resetChip(chip)} :
    \E s \in {IF ms_variant = "legacy" THEN LegacySetInstrument(r, ms_ins)
               ELSE SetInstrument(r, ms_ins)} :
    \E p \in {noteOn(s.chip, s.synth)} :
        /\ chip' = p.chip
        /\ synth' = p.synth
        /\ db' = IF ms_variant = "legacy" THEN db
                 ELSE [db EXCEPT !.operators = OperatorsAfterSetInstrument(@, ms_ins)]

\* entry of MeasureDurations up to the attack loop
MeasBegin ==
    /\ ms_pc = "start"
    /\ HistBecomes(HistFresh(HistoryCapacity))
    /\ Program
    /\ an' = MeasLocals
    /\ ms_heard' = NothingHeard
    /\ ms_pc' = "attack"
    /\ UNCHANGED <<ms_variant, ms_run, ms_ins, ms_result, ms_first, ms_silent2>>

\* a plausible slip: the break of the attack loop does not wait for the
\* first max_silent seconds
AttackBreak_AnyPeriod(period, rms, highest, sound_min, sound_max) ==
    \/ RmsBelow(rms, highest, min_coefficient_on_den)
    \/ (sound_min >= -1 /\ sound_max <= 1)

\* if((period > max_silent * interval) &&
\*    ((rms < highest_sofar * min_coefficient_on) ||
\*     (sound_min >= -1 && sound_max <= 1))) break;
AttackBreak(period, rms, highest, sound_min, sound_max) ==
    /\ period > max_silent * interval
    /\ \/ RmsBelow(rms, highest, min_coefficient_on_den)
       \/ (sound_min >= -1 /\ sound_max <= 1)

\* one iteration of the attack loop, and the loop exit that follows it
MeasAttackPeriod ==
    /\ ms_pc = "attack"
    /\ an.period < max_period_on
    /\ \E g \in {GeneratePeriod("attack")} :
       LET winsize == g.hist.length
           rms == MeasureRMS(HistViewOf(g.hist), HannWindow(winsize), winsize)
           first == an.period = 0
           higher == ~first /\ rms > an.peak_amplitude_value
           quarter == /\ ~first /\ ~higher /\ ~an.quarter_amplitude_time_found
                      /\ RmsAtMost(rms, an.peak_amplitude_value, min_coefficient_on_den)
           highest == IF rms > an.highest_sofar THEN rms ELSE an.highest_sofar
           break == AttackBreak(an.period, rms, highest, g.sound_min, g.sound_max)
       IN /\ HistBecomes(g.hist)
          /\ chip' = g.chip
          /\ ms_heard' = [ms_heard EXCEPT
                !.attack = g.loudest,
                !.atPeak = IF first \/ higher THEN g.chip.clock ELSE @]
          /\ an' = [an EXCEPT
                !.winsize = winsize,
                !.sound_min = g.sound_min,
                !.sound_max = g.sound_max,
                !.begin_amplitude = IF first THEN rms ELSE @,
                !.peak_amplitude_value = IF first \/ higher THEN rms ELSE @,
                !.peak_amplitude_time = IF first THEN 0 ELSE IF higher THEN an.period ELSE @,
                !.quarter_amplitude_time = IF quarter THEN an.period ELSE @,
                !.quarter_amplitude_time_found =
                    IF higher THEN FALSE ELSE IF quarter THEN TRUE ELSE @,
                !.highest_sofar = highest,
                !.period = IF break THEN @ ELSE @ + 1,
                !.windows_passed_on = IF break THEN @ ELSE @ + 1]
          /\ ms_pc' = IF break \/ an.period + 1 >= max_period_on THEN "keyoff" ELSE "attack"
    /\ UNCHANGED <<ms_variant, ms_run, ms_ins, synth, ms_result, ms_first, ms_silent2>>

\* a plausible slip: the default for a quarter time that was not found is
\* forgotten
QuarterTimeAfterLoop_NoDefault(a) == a.quarter_amplitude_time

\* if(!quarter_amplitude_time_found) quarter_amplitude_time = windows_passed_on
QuarterTimeAfterLoop(a) ==
    IF a.quarter_amplitude_time_found THEN a.quarter_amplitude_time
    ELSE a.windows_passed_on

\* between the loops: the quarter time default, then either a plain key-off
\* or the reset of the chip and of the history before the replay
MeasKeyOff ==
    /\ ms_pc = "keyoff"
    /\ an' = [an EXCEPT
            !.quarter_amplitude_time = QuarterTimeAfterLoop(an),
            !.period = 0]
    /\ IF an.windows_passed_on >= max_period_on
       THEN /\ chip' = noteOff(chip, synth)
            /\ ms_heard' = [ms_heard EXCEPT !.atKeyOff = chip.clock]
            /\ ms_pc' = "release"
            /\ UNCHANGED <<synth, m_data, m_index, m_length, m_capacity>>
       ELSE /\ Program
            /\ HistBecomes(HistFresh(HistoryCapacity))
            /\ ms_pc' = "replay"
            /\ UNCHANGED ms_heard
    /\ UNCHANGED <<ms_variant, ms_run, ms_ins, ms_result, ms_first, ms_silent2>>

\* a plausible slip: the replay also generates the period of the peak
ReplayContinues_ThroughPeak(period) ==
    (period <= an.peak_amplitude_time) /\ (period < max_period_on)

\* the condition of the replay loop
ReplayContinues(period) ==
    ((period < an.peak_amplitude_time) \/ (period = 0)) /\ (period < max_period_on)

\* one iteration of the replay loop; after the last one, synth.noteOff()
MeasReplayPeriod ==
    /\ ms_pc = "replay"
    /\ ReplayContinues(an.period)
    /\ \E g \in {GeneratePeriod("replay")} :
          /\ HistBecomes(g.hist)
          /\ IF ReplayContinues(an.period + 1)
             THEN /\ chip' = g.chip
                  /\ ms_heard' = [ms_heard EXCEPT !.replay = g.loudest]
                  /\ an' = [an EXCEPT !.period = @ + 1]
                  /\ ms_pc' = "replay"
             ELSE /\ chip' = noteOff(g.chip, synth)
                  /\ ms_heard' = [ms_heard EXCEPT !.replay = g.loudest,
                                                  !.atKeyOff = g.chip.clock]
                  /\ an' = [an EXCEPT !.period = 0]
                  /\ ms_pc' = "release"
    /\ UNCHANGED <<ms_variant, ms_run, ms_ins, synth, ms_result, ms_first, ms_silent2>>

\* a plausible slip: the silence break of the release loop does not wait for
\* the first max_silent seconds
ReleaseBreak_AnyPeriod(period, rms, highest, sound_min, sound_max) ==
    \/ RmsBelow(rms, highest, min_coefficient_off_den)
    \/ (sound_min >= -1 /\ sound_max <= 1)

\* if(rms < highest_sofar * min_coefficient_off) break;
\* if((period > max_silent * interval) && (sound_min >= -1 && sound_max <= 1)) break;
ReleaseBreak(period, rms, highest, sound_min, sound_max) ==
    \/ RmsBelow(rms, highest, min_coefficient_off_den)
    \/ /\ period > max_silent * interval
       /\ sound_min >= -1 /\ sound_max <= 1

\* one iteration of the release loop, and the loop exit that follows it
MeasReleasePeriod ==
    /\ ms_pc = "release"
    /\ an.period < max_period_off
    /\ \E g \in {GeneratePeriod("release")} :
       LET winsize == g.hist.length
           rms == MeasureRMS(HistViewOf(g.hist), HannWindow(winsize), winsize)
           keyoff == /\ ~an.keyoff_out_time_found
                     /\ RmsAtMost(rms, an.peak_amplitude_value, min_coefficient_off_den)
           break == ReleaseBreak(an.period, rms, an.highest_sofar, g.sound_min, g.sound_max)
       IN /\ HistBecomes(g.hist)
          /\ chip' = g.chip
          /\ ms_heard' = [ms_heard EXCEPT !.release = g.loudest]
          /\ an' = [an EXCEPT
                !.winsize = winsize,
                !.sound_min = g.sound_min,
                !.sound_max = g.sound_max,
                !.keyoff_out_time = IF keyoff THEN an.period ELSE @,
                !.keyoff_out_time_found = IF keyoff THEN TRUE ELSE @,
                !.period = IF break THEN @ ELSE @ + 1,
                !.windows_passed_off = IF break THEN @ ELSE @ + 1]
          /\ ms_pc' = IF break \/ an.period + 1 >= max_period_off THEN "result" ELSE "release"
    /\ UNCHANGED <<ms_variant, ms_run, ms_ins, synth, ms_result, ms_first, ms_silent2>>

\* a plausible slip: the sample range is left out of the classification
NoSoundLegacy_PeakOnly(peak, sound_min, sound_max) == peak < RmsUnit \div 4

\* legacy: nosound = (peak < 0.5) || ((sound_min >= -1) && (sound_max <= 1))
NoSoundLegacy(peak, sound_min, sound_max) ==
    (peak < RmsUnit \div 4) \/ ((sound_min >= -1) /\ (sound_max <= 1))

\* newer: nosound = (peak < 0.5) || ((sound_min >= -19) && (sound_max <= 18))
NoSoundNewer(peak, sound_min, sound_max) ==
    (peak < RmsUnit \div 4) \/ ((sound_min >= -19) /\ (sound_max <= 18))

\* a plausible slip: a release that never fell to the threshold is reported
\* with the number of release periods analysed, as the attack is
MeasResult_KeyoffAsAttack(nosound) ==
    LET keyoff == IF an.keyoff_out_time_found THEN an.keyoff_out_time
                  ELSE an.windows_passed_off
    IN DurationInfo((an.quarter_amplitude_time * 1000) \div interval,
                    (keyoff * 1000) \div interval,
                    nosound,
                    an.peak_amplitude_time, an.peak_amplitude_value, an.begin_amplitude,
                    an.quarter_amplitude_time, keyoff)

\* the DurationInfo built after the release loop
MeasResult(nosound) ==
    DurationInfo((an.quarter_amplitude_time * 1000) \div interval,
                 (an.keyoff_out_time * 1000) \div interval,
                 nosound,
                 an.peak_amplitude_time, an.peak_amplitude_value, an.begin_amplitude,
                 an.quarter_amplitude_time, an.keyoff_out_time)

\* the end of MeasureDurations(const ins &in, OPLChipBase *chip)
MeasReturnLegacy ==
    /\ ms_pc = "result"
    /\ ms_variant = "legacy"
    /\ ms_result' = MeasResult(NoSoundLegacy(an.peak_amplitude_value,
                                             an.sound_min, an.sound_max))
    /\ ms_pc' = "done"
    /\ UNCHANGED <<histObj, ms_variant, ms_run, ms_ins, chip, synth, an, ms_first,
                   ms_silent2, ms_heard>>

\* the end of MeasureDurations(BanksDump &db, const InstrumentEntry &ins,
\* OPLChipBase *chip): the annotation of db.instruments[ins.instId] (ins is
\* that entry, the first of the database), then the
\* cross-check against BanksDump::isSilent, which exits on a mismatch
MeasReturnNewer ==
    /\ ms_pc = "result"
    /\ ms_variant = "newer"
    /\ LET r == MeasResult(NoSoundNewer(an.peak_amplitude_value,
                                        an.sound_min, an.sound_max))
       IN /\ ms_result' = r
          /\ ms_ins' = Annotate(ms_ins, r)
          /\ db' = [db EXCEPT !.instruments[1] = Annotate(@, r)]
          /\ \E silent2 \in (IF ms_silent2 = {} THEN BOOLEAN ELSE ms_silent2) :
                /\ ms_silent2' = {silent2}
                /\ ms_pc' = IF r.nosound # silent2 THEN "exit" ELSE "done"
    /\ UNCHANGED <<histObj, ms_variant, ms_run, chip, synth, an, ms_first, ms_heard>>

\* the same instrument is measured once more, on a chip of its own
MeasAgain ==
    /\ ms_pc = "done"
    /\ ms_run = 1
    /\ ms_first' = ms_result
    /\ ms_run' = 2
    /\ chip' = FreshChip
    /\ synth' = NoSynth
    /\ ms_pc' = "start"
    /\ UNCHANGED <<histObj, ms_variant, ms_ins, an, ms_result, ms_silent2, ms_heard>>

(***************************************************************************)
(* Specifications                                                          *)
(***************************************************************************)
InitHist ==
    /\ HistIdle
    /\ NoteIdle
    /\ SchedIdle
    /\ CacheIdle
    /\ MeasIdle

NextHist ==
    \/ (\E c \in 1..MaxCap : HistReset(c)) /\ UNCHANGED <<noteVars, schedVars, cacheVars, measVars>>
    \/ (\E v \in 0..MaxSample : HistAdd(v)) /\ UNCHANGED <<noteVars, schedVars, cacheVars, measVars>>
    \/ (m_capacity >= 1 /\ HistClear) /\ UNCHANGED <<noteVars, schedVars, cacheVars, measVars>>

SpecHist == InitHist /\ [][NextHist]_vars

InitNote ==
    /\ HistIdle
    /\ n_pc = "begin"
    /\ n_note \in 0..127
    /\ n_offset \in -128..127
    /\ n_hertz = 0
    /\ n_halvings = 0
    /\ n_x = 0
    /\ SchedIdle
    /\ CacheIdle
    /\ MeasIdle

NextNote ==
    \/ NoteOnBegin /\ UNCHANGED <<histVars, schedVars, cacheVars, measVars>>
    \/ NoteOnHalve /\ UNCHANGED <<histVars, schedVars, cacheVars, measVars>>
    \/ NoteOnFinish /\ UNCHANGED <<histVars, schedVars, cacheVars, measVars>>

SpecNote == InitNote /\ [][NextNote]_vars

\* the databases main may have built: every instrument is made of one entry
\* of the operator table, whose content is its own index
Databases ==
    { [instruments |-> [t \in Tasks |-> InstrumentEntry(f[t])],
       operators |-> [o \in 0..MaxOp |-> o]] : f \in [Tasks -> 0..MaxOp] }

\* databases whose instruments arrive with the blank flag already set in
\* their instFlags, all made of the same operator
FlaggedDatabases ==
    { [instruments |-> [t \in Tasks |->
                           [InstrumentEntry(o) EXCEPT !.instFlags = WOPL_Ins_IsBlank]],
       operators |-> [o2 \in 0..MaxOp |-> o2]] : o \in 0..MaxOp }

\* the instrument table of a legacy run: instab is a map keyed by ins, so the
\* instruments handed to run(i) differ from each other
LegacyDatabases ==
    { [instruments |-> [t \in Tasks |-> LegacyIns(t - 1)], operators |-> <<>>] }

\* BanksDump::isSilent(db, ins) (progs_cache.h) judges the operators and the
\* connection of the instrument without playing it: any answer for each
\* operator content
SilenceAnswers == [0..MaxOp -> BOOLEAN]

InitSched ==
    /\ HistIdle
    /\ NoteIdle
    /\ hw \in 0..MaxHW
    /\ m_semaphore = 2 * hw
    /\ m_durationInfo_mx = 0
    /\ m_durationInfoX = [k \in {} |-> NoInfo]
    /\ m_done = 0
    /\ m_cache_matches = 0
    /\ m_total = 0
    /\ m_threads = <<>>
    /\ main_pc = "load"
    /\ main_b = 1
    /\ main_i = 1
    /\ s_bd \in BOOLEAN
    /\ m_durationInfo = [k \in {} |-> NoInfo]
    /\ db \in (IF s_bd THEN Databases \cup FlaggedDatabases ELSE LegacyDatabases)
    /\ isSilent \in (IF s_bd THEN SilenceAnswers ELSE {<<>>})
    /\ w_writes = [t \in Tasks |-> <<>>]
    /\ w_pc = [t \in Tasks |-> "queued"]
    /\ m_works = [t \in Tasks |-> FALSE]
    /\ w_ok = [t \in Tasks |-> <<>>]
    /\ w_atEnd = [t \in Tasks |-> FALSE]
    /\ w_info = [t \in Tasks |-> NoInfo]
    /\ w_chipOps = [t \in Tasks |-> 0]
    /\ preloaded = {}
    /\ CacheIdle
    /\ MeasIdle

NextSched ==
    \/ MainLoadCacheX /\ UNCHANGED <<histVars, noteVars, cacheVars, measVars>>
    \/ MainRun /\ UNCHANGED <<histVars, noteVars, cacheVars, measVars>>
    \/ MainLoopEnd /\ UNCHANGED <<histVars, noteVars, cacheVars, measVars>>
    \/ MainWaitAllDelete /\ UNCHANGED <<histVars, noteVars, cacheVars, measVars>>
    \/ MainWaitAllReturn /\ UNCHANGED <<histVars, noteVars, cacheVars, measVars>>
    \/ MainSaveCacheX /\ UNCHANGED <<histVars, noteVars, c_pc, c_saved, c_log, c_damage, measVars>>
    \/ (\E t \in Tasks : WorkerKey(t)) /\ UNCHANGED <<histVars, noteVars, cacheVars, measVars>>
    \/ (\E t \in Tasks : WorkerLock1(t)) /\ UNCHANGED <<histVars, noteVars, cacheVars, measVars>>
    \/ (\E t \in Tasks : WorkerFind(t)) /\ UNCHANGED <<histVars, noteVars, cacheVars, measVars>>
    \/ (\E t \in Tasks : WorkerHit(t)) /\ UNCHANGED <<histVars, noteVars, cacheVars, measVars>>
    \/ (\E t \in Tasks : WorkerMeasureBegin(t)) /\ UNCHANGED <<histVars, noteVars, cacheVars, measVars>>
    \/ (\E t \in Tasks : WorkerMeasureEnd(t)) /\ UNCHANGED <<histVars, noteVars, cacheVars, measVars>>
    \/ (\E t \in Tasks : WorkerLock2(t)) /\ UNCHANGED <<histVars, noteVars, cacheVars, measVars>>
    \/ (\E t \in Tasks : WorkerInsert(t)) /\ UNCHANGED <<histVars, noteVars, cacheVars, measVars>>
    \/ (\E t \in Tasks : WorkerNotify(t)) /\ UNCHANGED <<histVars, noteVars, cacheVars, measVars>>
    \/ (\E t \in Tasks : WorkerCount(t)) /\ UNCHANGED <<histVars, noteVars, cacheVars, measVars>>
    \/ (\E t \in Tasks : WorkerExit(t)) /\ UNCHANGED <<histVars, noteVars, cacheVars, measVars>>
    \/ MainLoadCache /\ UNCHANGED <<histVars, noteVars, cacheVars, measVars>>
    \/ (\E t \in Tasks : LegacyWorkerKey(t)) /\ UNCHANGED <<histVars, noteVars, cacheVars, measVars>>
    \/ (\E t \in Tasks : LegacyWorkerFind(t)) /\ UNCHANGED <<histVars, noteVars, cacheVars, measVars>>
    \/ (\E t \in Tasks : LegacyWorkerHit(t)) /\ UNCHANGED <<histVars, noteVars, cacheVars, measVars>>
    \/ (\E t \in Tasks : LegacyWorkerMeasureEnd(t)) /\ UNCHANGED <<histVars, noteVars, cacheVars, measVars>>
    \/ (\E t \in Tasks : LegacyWorkerInsert(t)) /\ UNCHANGED <<histVars, noteVars, cacheVars, measVars>>

SpecSched == InitSched /\ [][NextSched]_vars

\* the steps of the main thread and of the thread of task t; the operating
\* system runs every thread that can run
MainStep ==
    \/ /\ \/ MainLoadCacheX \/ MainLoadCache \/ MainRun \/ MainLoopEnd
          \/ MainWaitAllDelete \/ MainWaitAllReturn
       /\ UNCHANGED <<histVars, noteVars, cacheVars, measVars>>
    \/ /\ MainSaveCacheX
       /\ UNCHANGED <<histVars, noteVars, c_pc, c_saved, c_log, c_damage, measVars>>

WorkerStep(t) ==
    /\ \/ WorkerKey(t) \/ WorkerLock1(t) \/ WorkerFind(t) \/ WorkerHit(t)
       \/ WorkerMeasureBegin(t) \/ WorkerMeasureEnd(t) \/ WorkerLock2(t)
       \/ WorkerInsert(t) \/ WorkerNotify(t) \/ WorkerCount(t) \/ WorkerExit(t)
       \/ LegacyWorkerKey(t) \/ LegacyWorkerFind(t) \/ LegacyWorkerHit(t)
       \/ LegacyWorkerMeasureEnd(t) \/ LegacyWorkerInsert(t)
    /\ UNCHANGED <<histVars, noteVars, cacheVars, measVars>>

\* fair scheduling of the threads; a measurement that has begun ends
\* (WorkerMeasureEnd is a step of the worker)
SpecSchedFair ==
    /\ SpecSched
    /\ WF_vars(MainStep)
    /\ \A t \in Tasks : WF_vars(WorkerStep(t))

(***************************************************************************)
(* A later run of gen_adldata on the cache file of an earlier run.  The    *)
(* bank files are read anew in every run, and the shared operator table    *)
(* gives an operator content the index at which it was first met, so the   *)
(* same content can have another index in the later run.                   *)
(***************************************************************************)
\* the operator table of the earlier run
EarlierOperators == [o \in 0..MaxOp |-> o]

\* the operator table of the later run: the same contents, met in the same
\* or in the opposite order
LaterOperators == { EarlierOperators, [o \in 0..MaxOp |-> MaxOp - o] }

\* m_durationInfoX at the end of an earlier run whose instruments were made
\* of the operators at the indices S
EarlierRunCache(S) ==
    [k \in {OperatorsKey(InstrumentEntry(o)) : o \in S} |->
        MeasuredInfo([instruments |-> <<>>, operators |-> EarlierOperators],
                     InstrumentEntry(k[1]))]

\* the databases of the later run
RerunDatabases ==
    { [instruments |-> [t \in Tasks |-> InstrumentEntry(f[t])], operators |-> tab] :
        f \in [Tasks -> 0..MaxOp], tab \in LaterOperators }

InitRerun ==
    /\ HistIdle
    /\ NoteIdle
    /\ hw \in 1..MaxHW
    /\ m_semaphore = 2 * hw
    /\ m_durationInfo_mx = 0
    /\ m_durationInfoX = [k \in {} |-> NoInfo]
    /\ m_done = 0
    /\ m_cache_matches = 0
    /\ m_total = 0
    /\ m_threads = <<>>
    /\ main_pc = "load"
    /\ main_b = 1
    /\ main_i = 1
    /\ s_bd = TRUE
    /\ m_durationInfo = [k \in {} |-> NoInfo]
    /\ db \in RerunDatabases
    /\ isSilent = [c \in 0..MaxOp |-> c = 0]
    /\ w_writes = [t \in Tasks |-> <<>>]
    /\ w_pc = [t \in Tasks |-> "queued"]
    /\ m_works = [t \in Tasks |-> FALSE]
    /\ w_ok = [t \in Tasks |-> <<>>]
    /\ w_atEnd = [t \in Tasks |-> FALSE]
    /\ w_info = [t \in Tasks |-> NoInfo]
    /\ w_chipOps = [t \in Tasks |-> 0]
    /\ preloaded = {}
    /\ f_exists = TRUE
    /\ f_bytes \in { SaveCacheXBytes(EarlierRunCache(S)) : S \in {{0}, 0..MaxOp} }
    /\ c_pc = "idle"
    /\ c_saved = EmptyCache
    /\ c_log = ""
    /\ c_damage = "none"
    /\ MeasIdle

\* gen_adldata.cc main: LoadCacheX("fm_banks/adldata-cache-x.dat") reads the
\* file the earlier run saved; m_cache_matches = 0; m_done = 0; m_total = ...
MainLoadCacheXFile ==
    /\ main_pc = "load"
    /\ s_bd
    /\ \E junk \in JunkValues :
          LET r == LoadCacheXResult(f_exists, f_bytes, junk) IN
          /\ m_durationInfoX' = r.cache
          /\ preloaded' = DOMAIN r.cache
          /\ c_log' = r.log
    /\ m_cache_matches' = 0
    /\ m_done' = 0
    /\ m_total' = Len(db.instruments)
    /\ main_pc' = "submit"
    /\ UNCHANGED <<hw, s_bd, w_writes, m_durationInfo, isSilent, m_semaphore,
                   m_durationInfo_mx, m_threads, main_b, main_i, db, w_pc, m_works,
                   w_ok, w_atEnd, w_info, w_chipOps, f_exists, f_bytes, c_pc, c_saved,
                   c_damage>>

rerunRest == <<histVars, noteVars, cacheVars, measVars>>

NextRerun ==
    \/ MainLoadCacheXFile /\ UNCHANGED <<histVars, noteVars, measVars>>
    \/ MainRun /\ UNCHANGED rerunRest
    \/ MainLoopEnd /\ UNCHANGED rerunRest
    \/ MainWaitAllDelete /\ UNCHANGED rerunRest
    \/ MainWaitAllReturn /\ UNCHANGED rerunRest
    \/ MainSaveCacheX /\ UNCHANGED <<histVars, noteVars, c_pc, c_saved, c_log, c_damage, measVars>>
    \/ (\E t \in Tasks : WorkerKey(t)) /\ UNCHANGED rerunRest
    \/ (\E t \in Tasks : WorkerLock1(t)) /\ UNCHANGED rerunRest
    \/ (\E t \in Tasks : WorkerFind(t)) /\ UNCHANGED rerunRest
    \/ (\E t \in Tasks : WorkerHit(t)) /\ UNCHANGED rerunRest
    \/ (\E t \in Tasks : WorkerMeasureBegin(t)) /\ UNCHANGED rerunRest
    \/ (\E t \in Tasks : WorkerMeasureEnd(t)) /\ UNCHANGED rerunRest
    \/ (\E t \in Tasks : WorkerLock2(t)) /\ UNCHANGED rerunRest
    \/ (\E t \in Tasks : WorkerInsert(t)) /\ UNCHANGED rerunRest
    \/ (\E t \in Tasks : WorkerNotify(t)) /\ UNCHANGED rerunRest
    \/ (\E t \in Tasks : WorkerCount(t)) /\ UNCHANGED rerunRest
    \/ (\E t \in Tasks : WorkerExit(t)) /\ UNCHANGED rerunRest

SpecRerun == InitRerun /\ [][NextRerun]_vars

\* the variables of the scheduler that the cache file specification leaves alone
schedRest == <<hw, m_semaphore, m_durationInfo_mx, m_done, m_cache_matches, m_total,
               m_threads, main_pc, main_b, main_i, db, w_pc, m_works, w_ok, w_atEnd,
               w_info, w_chipOps, preloaded, s_bd, m_durationInfo, isSilent, w_writes>>

InitCache ==
    /\ HistIdle
    /\ NoteIdle
    /\ hw = 0
    /\ m_semaphore = 0
    /\ m_durationInfo_mx = 0
    /\ m_durationInfoX \in CachesToSave
    /\ m_done = 0
    /\ m_cache_matches = 0
    /\ m_total = 0
    /\ m_threads = <<>>
    /\ main_pc = "idle"
    /\ main_b = 1
    /\ main_i = 1
    /\ db = [instruments |-> <<>>, operators |-> <<>>]
    /\ w_pc = [t \in Tasks |-> "queued"]
    /\ m_works = [t \in Tasks |-> FALSE]
    /\ w_ok = [t \in Tasks |-> <<>>]
    /\ w_atEnd = [t \in Tasks |-> FALSE]
    /\ w_info = [t \in Tasks |-> NoInfo]
    /\ w_chipOps = [t \in Tasks |-> 0]
    /\ preloaded = {}
    /\ s_bd = TRUE
    /\ m_durationInfo = [k \in {} |-> NoInfo]
    /\ isSilent = <<>>
    /\ w_writes = [t \in Tasks |-> <<>>]
    /\ f_exists = FALSE
    /\ f_bytes = <<>>
    /\ c_pc = "start"
    /\ c_saved = EmptyCache
    /\ c_log = ""
    /\ c_damage = "none"
    /\ MeasIdle

NextCache ==
    \/ CacheSave /\ UNCHANGED <<histVars, noteVars, schedRest, measVars>>
    \/ FileRemove /\ UNCHANGED <<histVars, noteVars, schedRest, measVars>>
    \/ FileTruncate /\ UNCHANGED <<histVars, noteVars, schedRest, measVars>>
    \/ FileOtherMagic /\ UNCHANGED <<histVars, noteVars, schedRest, measVars>>
    \/ CacheLoad /\ UNCHANGED <<histVars, noteVars, schedRest, measVars>>

SpecCache == InitCache /\ [][NextCache]_vars

\* the instruments handed to the newer MeasureDurations: one two-operator
\* instrument per entry of the operator table, a four-operator one and a
\* pseudo four-operator one
NewerInstruments ==
    { InstrumentEntry(k) : k \in 0..(Len(BankOperators) - 1) } \cup
    { [InstrumentEntry(4) EXCEPT !.ops = <<4, 4, 4, 4>>, !.instFlags = WOPL_Ins_4op],
      [InstrumentEntry(1) EXCEPT !.ops = <<1, 1, 1, 1>>, !.instFlags = WOPL_Ins_Pseudo4op] }

\* the instruments handed to the legacy MeasureDurations
LegacyInstruments == { LegacyIns(k) : k \in 0..(Len(insdatatab) - 1) }

\* an entry of the database that is not the one being measured
OtherEntry == [InstrumentEntry(1) EXCEPT !.delay_on_ms = 5, !.delay_off_ms = 3]

InitMeas ==
    /\ m_data = <<>>
    /\ m_index = 0
    /\ m_length = 0
    /\ m_capacity = 0
    /\ h_log = <<>>
    /\ h_cleared = FALSE
    /\ h_since = 0
    /\ NoteIdle
    /\ SchedIdleButDb
    /\ CacheIdle
    /\ ms_pc = "start"
    /\ ms_variant \in {"legacy", "newer"}
    /\ ms_run = 1
    /\ ms_ins \in (IF ms_variant = "legacy" THEN LegacyInstruments ELSE NewerInstruments)
    /\ db = IF ms_variant = "legacy" THEN [instruments |-> <<>>, operators |-> <<>>]
            ELSE [instruments |-> <<ms_ins, OtherEntry>>, operators |-> BankOperators]
    /\ chip = FreshChip
    /\ synth = NoSynth
    /\ an = MeasLocals
    /\ ms_result = NoInfo
    /\ ms_first = NoInfo
    /\ ms_silent2 = {}
    /\ ms_heard = NothingHeard

\* what the measurement leaves alone
schedButDb == <<hw, m_semaphore, m_durationInfo_mx, m_durationInfoX, m_done,
                m_cache_matches, m_total, m_threads, main_pc, main_b, main_i, w_pc,
                m_works, w_ok, w_atEnd, w_info, w_chipOps, preloaded, s_bd,
                m_durationInfo, isSilent, w_writes>>
measRest == <<h_log, h_cleared, h_since, noteVars, schedButDb, cacheVars>>

NextMeas ==
    \/ MeasBegin /\ UNCHANGED measRest
    \/ MeasAttackPeriod /\ UNCHANGED <<measRest, db>>
    \/ MeasKeyOff /\ UNCHANGED <<measRest, db>>
    \/ MeasReplayPeriod /\ UNCHANGED <<measRest, db>>
    \/ MeasReleasePeriod /\ UNCHANGED <<measRest, db>>
    \/ MeasReturnLegacy /\ UNCHANGED <<measRest, db>>
    \/ MeasReturnNewer /\ UNCHANGED measRest
    \/ MeasAgain /\ UNCHANGED <<measRest, db>>

SpecMeas == InitMeas /\ [][NextMeas]_vars

(***************************************************************************)
(* The cache key against the programming of the chip                       *)
(***************************************************************************)
\* every writeReg call TinySynth makes for an instrument of the newer
\* representation: setInstrument, noteOn, noteOff
ProgramWrites(e) ==
    LET sy == SetInstrument(FreshChip, e).synth
        on == noteOn(FreshChip, sy).synth
    IN SetInstrumentWrites(e) \o NoteOnWrites(sy) \o NoteOffWrites(on)

\* the worker of task t programs the chip for its instrument (its cache
\* lookup is left out: the cache is empty)
WorkerProgram(t) ==
    /\ w_pc[t] = "lock1"
    /\ w_writes' = [w_writes EXCEPT ![t] = ProgramWrites(db.instruments[t])]
    /\ w_atEnd' = [w_atEnd EXCEPT ![t] = TRUE]
    /\ w_pc' = [w_pc EXCEPT ![t] = "measuring"]
    /\ UNCHANGED <<hw, s_bd, isSilent, m_durationInfo, m_semaphore, m_durationInfo_mx,
                   m_durationInfoX, m_done, m_cache_matches, m_total, m_threads,
                   main_pc, main_b, main_i, db, m_works, w_ok, w_info, w_chipOps,
                   preloaded>>

\* instrument records that differ from a two-operator instrument in one
\* respect each: annotated delays, percussion key 60, a note offset, operators
\* with tremolo and vibrato set, a detune, another operator, two voices
KeyInstruments ==
    { InstrumentEntry(1),
      [InstrumentEntry(1) EXCEPT !.delay_on_ms = 5, !.delay_off_ms = 3],
      [InstrumentEntry(1) EXCEPT !.percussionKeyNumber = 60],
      [InstrumentEntry(1) EXCEPT !.noteOffset1 = 12],
      [InstrumentEntry(1) EXCEPT !.ops = <<Len(Envelopes), Len(Envelopes), -1, -1>>],
      [InstrumentEntry(1) EXCEPT !.secondVoiceDetune = 5],
      InstrumentEntry(2),
      [InstrumentEntry(1) EXCEPT !.ops = <<1, 1, 2, 2>>, !.instFlags = WOPL_Ins_Pseudo4op] }

InitKey ==
    /\ HistIdle
    /\ NoteIdle
    /\ hw = 0
    /\ m_semaphore = 0
    /\ m_durationInfo_mx = 0
    /\ m_durationInfoX = [k \in {} |-> NoInfo]
    /\ m_done = 0
    /\ m_cache_matches = 0
    /\ m_total = 0
    /\ m_threads = <<>>
    /\ main_pc = "idle"
    /\ main_b = 1
    /\ main_i = 1
    /\ w_pc = [t \in Tasks |-> "key"]
    /\ m_works = [t \in Tasks |-> TRUE]
    /\ w_ok = [t \in Tasks |-> <<>>]
    /\ w_atEnd = [t \in Tasks |-> FALSE]
    /\ w_info = [t \in Tasks |-> NoInfo]
    /\ w_chipOps = [t \in Tasks |-> 0]
    /\ preloaded = {}
    /\ s_bd = TRUE
    /\ m_durationInfo = [k \in {} |-> NoInfo]
    /\ isSilent = <<>>
    /\ w_writes = [t \in Tasks |-> <<>>]
    /\ db \in { [instruments |-> f, operators |-> BankOperators] :
                    f \in [Tasks -> KeyInstruments] }
    /\ CacheIdle
    /\ MeasIdle

NextKey ==
    \/ (\E t \in Tasks : WorkerKey(t)) /\ UNCHANGED <<histVars, noteVars, cacheVars, measVars>>
    \/ (\E t \in Tasks : WorkerProgram(t)) /\ UNCHANGED <<histVars, noteVars, cacheVars, measVars>>

SpecKey == InitKey /\ [][NextKey]_vars

(***************************************************************************)
(* TinySynth on its own: resetChip, setInstrument, noteOn and noteOff are  *)
(* called in the order MeasureDurations calls them, for every percussion   *)
(* key and every kind of instrument of both representations.               *)
(***************************************************************************)
\* the instruments of the legacy representation: one or two voices out of
\* insdatatab, every notenum, every combination of the 4-operator flags
SynthLegacyInstruments ==
    { [insno1 |-> a, insno2 |-> b, notenum |-> k, real4op |-> r, pseudo4op |-> p,
       voice2_fine_tune |-> 0] :
        a \in {1, Len(Envelopes)}, b \in {1, Len(Envelopes) + 1}, k \in 0..255,
        r \in BOOLEAN, p \in BOOLEAN }

\* an operator table whose entries have tremolo and vibrato set
SynthOperators ==
    << [d_E862 |-> <<1, 17, 33, 2>>, d_40 |-> 10],
       [d_E862 |-> <<64 + 2, 18, 34, 1>>, d_40 |-> 20],
       [d_E862 |-> <<128 + 3, 19, 35, 0>>, d_40 |-> 30],
       [d_E862 |-> <<255, 20, 36, 3>>, d_40 |-> 63] >>

\* the instruments of the newer representation: two operators, real
\* 4-operator, pseudo 4-operator and both flags, every percussion key
SynthInstruments ==
    { [InstrumentEntry(0) EXCEPT
            !.ops = IF f = 0 THEN <<o, 3, -1, -1>> ELSE <<o, 3, 2, 1>>,
            !.instFlags = f, !.percussionKeyNumber = k,
            !.fbConn = 14 + 256 * 5, !.noteOffset2 = 12] :
        o \in {0, 1}, f \in 0..3, k \in 0..255 }

InitSynth ==
    /\ HistIdle
    /\ NoteIdle
    /\ SchedIdleButDb
    /\ CacheIdle
    /\ ms_pc = "resetChip"
    /\ ms_variant \in {"legacy", "newer"}
    /\ ms_run = 0
    /\ ms_ins \in (IF ms_variant = "legacy" THEN SynthLegacyInstruments
                   ELSE SynthInstruments)
    /\ db = IF ms_variant = "legacy" THEN [instruments |-> <<>>, operators |-> <<>>]
            ELSE [instruments |-> <<ms_ins>>, operators |-> SynthOperators]
    /\ chip = FreshChip
    /\ synth = NoSynth
    /\ an = MeasLocals
    /\ ms_result = NoInfo
    /\ ms_first = NoInfo
    /\ ms_silent2 = {}
    /\ ms_heard = NothingHeard

synthRest == <<ms_variant, ms_run, ms_ins, an, ms_result, ms_first, ms_silent2, ms_heard>>

\* synth.resetChip()
SynthResetChip ==
    /\ ms_pc = "resetChip"
    /\ chip' = resetChip(chip)
    /\ ms_pc' = "setInstrument"
    /\ UNCHANGED <<synth, db, synthRest>>

\* synth.setInstrument(in) or synth.setInstrument(db, ins)
SynthSetInstrument ==
    /\ ms_pc = "setInstrument"
    /\ \E s \in {IF ms_variant = "legacy" THEN LegacySetInstrument(chip, ms_ins)
                  ELSE SetInstrument(chip, ms_ins)} :
          /\ chip' = s.chip
          /\ synth' = s.synth
    /\ db' = IF ms_variant = "legacy" THEN db
             ELSE [db EXCEPT !.operators = OperatorsAfterSetInstrument(@, ms_ins)]
    /\ ms_pc' = "noteOn"
    /\ UNCHANGED synthRest

\* synth.noteOn()
SynthNoteOn ==
    /\ ms_pc = "noteOn"
    /\ \E p \in {noteOn(chip, synth)} :
          /\ chip' = p.chip
          /\ synth' = p.synth
    /\ ms_pc' = "noteOff"
    /\ UNCHANGED <<db, synthRest>>

\* synth.noteOff()
SynthNoteOff ==
    /\ ms_pc = "noteOff"
    /\ chip' = noteOff(chip, synth)
    /\ ms_pc' = "keyedOff"
    /\ UNCHANGED <<synth, db, synthRest>>

NextSynth ==
    \/ SynthResetChip /\ UNCHANGED <<histObj, measRest>>
    \/ SynthSetInstrument /\ UNCHANGED <<histObj, measRest>>
    \/ SynthNoteOn /\ UNCHANGED <<histObj, measRest>>
    \/ SynthNoteOff /\ UNCHANGED <<histObj, measRest>>

SpecSynth == InitSynth /\ [][NextSynth]_vars

(***************************************************************************)
(* Claims                                                                  *)
(***************************************************************************)

\* the tasks in the Running state: started by run(), not yet CacheHit or Computed
RunningTasks == {t \in Tasks : w_pc[t] \in RunningPcs}

\* the tasks that took the hit branch and have passed its counter increment
CountedHits ==
    {t \in Tasks : ~w_atEnd[t] /\
                   w_pc[t] \in {"endWork", "count", "clearWorks", "exited", "reaped"}}

\* C1: with the semaphore capacity S = 2 * hardware_concurrency(), at most S
\* tasks are in the Running state at any time, for every interleaving of run
\* calls and worker steps.
C1_RunningBounded == Cardinality(RunningTasks) <= Capacity

\* C1 witness: more tasks than slots; the capacity is fully used by running
\* tasks while main still has an instrument to submit.
C1_Witness ==
    /\ NumIns > Capacity
    /\ Capacity >= 2
    /\ Cardinality(RunningTasks) = Capacity
    /\ main_pc = "submit"
    /\ main_b <= NumIns
    /\ m_semaphore = 0

\* C2: once waitAll has returned, the callback of every submitted task has
\* returned and no handle remains in m_threads.
C2_WaitAllJoinsAll ==
    main_pc \in {"save", "finished"} =>
        /\ \A t \in Tasks : w_pc[t] \in FinishedPcs
        /\ m_threads = <<>>

\* C2 witness: waitAll has returned after all NumIns tasks ran, and waitAll
\* itself had handles left to delete.
C2_Witness ==
    /\ main_pc = "save"
    /\ main_i > 1
    /\ m_done = NumIns
    /\ \A t \in Tasks : w_pc[t] = "reaped"

\* C3: a worker whose key was already in the cache when the run began makes
\* no chip operation, takes the hit branch, and the hit counter counts each
\* task that took the hit branch exactly once.
C3_HitSkipsChip ==
    /\ \A t \in Tasks :
          (w_ok[t] \in preloaded) =>
              /\ w_chipOps[t] = 0
              /\ w_pc[t] \notin {"measure", "measuring", "lock2", "insert"}
              /\ (w_pc[t] \in {"hit", "endWork", "count", "clearWorks", "exited", "reaped"}
                     => ~w_atEnd[t])
    /\ m_cache_matches = Cardinality(CountedHits)

\* C3 witness: a task with a preloaded key has finished through the hit
\* branch while another task of the same run measured its instrument.
C3_Witness ==
    \E t, u \in Tasks :
        /\ w_ok[t] \in preloaded
        /\ w_pc[t] = "exited"
        /\ m_cache_matches >= 1
        /\ w_chipOps[u] > 0

\* C5: after reset(C) and N calls to add (no clear in between), size() is
\* min(N, C) and the size() elements starting at data() are the last size()
\* appended values in append order.
C5_HistoryViewIsTail ==
    (m_capacity >= 1 /\ ~h_cleared) =>
        /\ HistSize = Min(Len(h_log), m_capacity)
        /\ HistView = LastN(h_log, HistSize)

\* C5 witness: the buffer has wrapped (more adds than the capacity) and the
\* appended values differ from each other.
C5_Witness ==
    /\ m_capacity >= 2
    /\ ~h_cleared
    /\ Len(h_log) > m_capacity + 1
    /\ h_log[Len(h_log)] # h_log[Len(h_log) - 1]
    /\ h_log[Len(h_log)] # 0

\* the three fields of a DurationInfo that the compact file holds
PersistedFields(v) == <<v.ms_sound_kon, v.ms_sound_koff, v.nosound>>

\* the attack and release ms of every saved entry are below 65535
SavedBelow65535 ==
    \A k \in DOMAIN c_saved :
        c_saved[k].ms_sound_kon < 65535 /\ c_saved[k].ms_sound_koff < 65535

\* LoadCacheX has read the very file SaveCacheX wrote
LoadedSavedFile == c_pc = "loaded" /\ c_damage = "none" /\ f_exists

\* C6 as stated: SaveCacheX followed by LoadCacheX of the same file yields
\* the same key set and, for every key, a result equal in all fields,
\* provided the attack/release ms values are below 65535.
C6_RoundTripAllFields ==
    (LoadedSavedFile /\ SavedBelow65535) => m_durationInfoX = c_saved

\* C6 amended: the same key set and, for every key, equal ms_sound_kon,
\* ms_sound_koff and nosound (the three fields the file holds), provided the
\* attack/release ms values are below 65535.
C6_RoundTripPersisted ==
    (LoadedSavedFile /\ SavedBelow65535) =>
        /\ DOMAIN m_durationInfoX = DOMAIN c_saved
        /\ \A k \in DOMAIN c_saved :
              PersistedFields(m_durationInfoX[k]) = PersistedFields(c_saved[k])

\* C6 witness: a cache of two entries, one with negative key components and
\* one with the nosound flag set, was saved and loaded back.
C6_Witness ==
    /\ LoadedSavedFile
    /\ SavedBelow65535
    /\ DOMAIN c_saved = {CacheKeyA, CacheKeyB}
    /\ c_saved[CacheKeyA].nosound
    /\ ~c_saved[CacheKeyB].nosound
    /\ c_saved[CacheKeyB].ms_sound_koff = 59993

\* C10 as stated: whenever LoadCacheX gives up (file missing, magic unreadable
\* or mismatched, record count unreadable, a later read short) the in-memory
\* compact cache is left empty.
C10_FailedLoadLeavesEmpty ==
    (c_pc = "loaded" /\ c_log # "loaded") => m_durationInfoX = EmptyCache

\* C9: for every played note in 0..127 and note offset in -128..127 the
\* halving loop of noteOn runs at most 8 times, and the fraction added after
\* the loop, (unsigned)(hertz + 0.5), lies in 0..1023.
C9_HalvingBounded ==
    /\ n_halvings <= 8
    /\ n_pc = "done" => (n_x - 8192 - 1024 * n_halvings) \in 0..1023

\* C9 witness: a note whose frequency was clamped ran the loop 8 times.
C9_Witness ==
    /\ n_pc = "done"
    /\ n_halvings = 8
    /\ Hertz1024(n_note, n_offset) > 131071 * 1024

\* MeasureDurations has computed its classification (it returned, or the
\* cross-check of the newer variant ended the process right after)
MeasClassified == ms_pc \in {"done", "exit"}

\* C4: for a fixed instrument and a fresh chip, the second execution of
\* MeasureDurations returns a result equal to the first in every field, also
\* when the first execution has annotated the instrument record in between.
C4_SecondRunSameResult ==
    (ms_pc = "done" /\ ms_run = 2) => ms_result = ms_first

\* a second execution has returned for an instrument record that the first
\* execution flagged blank, and it measured a signal
C4_Witness ==
    /\ ms_pc = "done"
    /\ ms_run = 2
    /\ ms_variant = "newer"
    /\ HasFlag(ms_ins.instFlags, WOPL_Ins_IsBlank)
    /\ ms_ins.delay_on_ms > 0
    /\ ms_result.peak_amplitude_value > 0

\* C7 as stated: an instrument whose samples never exceed magnitude 1 during
\* the whole attack phase is classified nosound = true, whatever the replay
\* and release phases generate.
C7_QuietAttackIsNoSound ==
    (ms_pc = "done" /\ ms_heard.attack <= 1) => ms_result.nosound

\* C7, amended: an instrument whose samples never exceed magnitude 1 during the
\* attack phase and during the release phase is classified nosound = true.
C7_QuietAttackAndReleaseIsNoSound ==
    (MeasClassified /\ ms_heard.attack <= 1 /\ ms_heard.release <= 1) => ms_result.nosound

\* a measurement returned nosound for samples of magnitude 1 whose peak RMS is
\* not below 0.5: the sample range decided
C7_Witness ==
    /\ ms_pc = "done"
    /\ ms_heard.attack = 1
    /\ ms_heard.release <= 1
    /\ ms_result.peak_amplitude_value >= RmsUnit \div 4
    /\ ms_result.nosound

\* C8 as stated: an instrument whose peak RMS is >= 0.5 and whose samples make
\* any excursion beyond +/-1 is classified nosound = false, in the legacy and
\* in the newer MeasureDurations.
C8_LoudIsSound ==
    (/\ ms_pc = "done"
     /\ ms_result.peak_amplitude_value >= RmsUnit \div 4
     /\ (an.sound_min < -1 \/ an.sound_max > 1))
        => ~ms_result.nosound

\* the number of records that lie completely inside the file
CompleteRecords == (Len(f_bytes) - 36) \div 45

\* LoadCacheX has read a file that was cut somewhere behind its record count
LoadedTruncatedRecords ==
    c_pc = "loaded" /\ c_damage = "truncated" /\ Len(f_bytes) >= 36

C12_HitCopiesFlagEqual ==
    s_bd => \A t \in CountedHits :
        LET di == m_durationInfoX[w_ok[t]]
            e == db.instruments[t]
        IN /\ e.delay_on_ms = di.ms_sound_kon
           /\ e.delay_off_ms = di.ms_sound_koff
           /\ HasFlag(e.instFlags, WOPL_Ins_IsBlank) = di.nosound

\* C12, amended: after a cache hit of a task of the newer representation the
\* record's delay-on and delay-off equal the cached attack and release ms,
\* and its flags are the flags it came with (they are component 9 of the
\* key), with the blank flag added when the cached nosound flag is set.
C12_HitCopiesFlagAdded ==
    s_bd => \A t \in CountedHits :
        LET di == m_durationInfoX[w_ok[t]]
            e == db.instruments[t]
        IN /\ e.delay_on_ms = di.ms_sound_kon
           /\ e.delay_off_ms = di.ms_sound_koff
           /\ e.instFlags = IF di.nosound THEN SetFlag(w_ok[t][9], WOPL_Ins_IsBlank)
                             ELSE w_ok[t][9]

\* C12 witness: a task of the newer representation whose record came without
\* the blank flag has taken the hit branch on a cached nosound entry.
C12_Witness ==
    /\ s_bd
    /\ \E t \in CountedHits :
          /\ w_ok[t][9] = 0
          /\ m_durationInfoX[w_ok[t]].nosound
          /\ db.instruments[t].delay_on_ms = 7
          /\ HasFlag(db.instruments[t].instFlags, WOPL_Ins_IsBlank)

\* the tasks whose worker has passed m_done++
CountedDone == {t \in Tasks : w_pc[t] \in {"clearWorks", "exited", "reaped"}}

\* the tasks that hold a capacity slot: run() has waited for them and their
\* worker has not yet called notify
SlotHolders == {t \in Tasks : w_pc[t] \in RunningPcs \cup {"endWork"}}

\* the tasks that took the miss branch and have inserted their result
ComputedTasks ==
    {t \in Tasks : w_atEnd[t] /\
                   w_pc[t] \in {"endWork", "count", "clearWorks", "exited", "reaped"}}

\* C13, the state part: m_done counts each worker past its increment once, the
\* semaphore misses one slot per task between wait and notify, and once
\* waitAll has returned m_done is the number of submitted tasks, hits plus
\* computed results is m_done and the semaphore is at full capacity.
DoneAndSlotsBalanced ==
    /\ main_pc # "load" => m_done = Cardinality(CountedDone)
    /\ m_semaphore = Capacity - Cardinality(SlotHolders)
    /\ main_pc \in {"save", "finished"} =>
          /\ m_done = NumIns
          /\ m_cache_matches + Cardinality(ComputedTasks) = m_done
          /\ m_semaphore = Capacity

\* C13: every worker, on the hit and on the miss path, increments m_done
\* once and releases one slot; m_done never decreases; when waitAll has
\* returned m_done equals the number of submitted tasks, hits plus computed
\* results equals m_done, and the semaphore is back at full capacity.
C13_DoneOnceSlotOnce ==
    /\ []DoneAndSlotsBalanced
    /\ [][m_done' >= m_done]_vars

\* C13 witness: waitAll has returned after a run in which one task hit the
\* cache and another one computed.
C13_Witness ==
    /\ main_pc = "save"
    /\ Capacity >= 2
    /\ m_cache_matches >= 1
    /\ Cardinality(ComputedTasks) >= 1
    /\ m_done = NumIns

\* C14: a worker holds the cache mutex exactly while it is at the lookup or
\* at the insert; it does not hold it while MeasureDurations runs, nor on
\* the hit branch, nor at or after the label endWork.
C14_MutexOnlyAroundMap ==
    /\ m_durationInfo_mx \in Tasks \cup {0}
    /\ \A t \in Tasks : (m_durationInfo_mx = t) <=> (w_pc[t] \in {"find", "insert"})

\* C14 witness: one worker is inside MeasureDurations while another one holds
\* the mutex for its insert and a third has left the worker body.
C14_Witness ==
    \E t, u, v \in Tasks :
        /\ w_pc[t] = "measuring"
        /\ w_pc[u] = "insert"
        /\ m_durationInfo_mx = u
        /\ w_pc[v] \in FinishedPcs

\* C15 as stated: a worker is at an access to the shared cache store (the
\* lookup, the read of the found entry on the hit branch of the newer
\* representation, the insert) only while it holds the cache mutex.
C15_StoreAccessUnderMutex ==
    \A t \in Tasks :
        (w_pc[t] \in {"find", "insert"} \/ (s_bd /\ w_pc[t] = "hit"))
            => m_durationInfo_mx = t

\* the pairs of different tasks that had the same key, both missed the cache
\* and have both inserted their result
BothComputed ==
    {p \in Tasks \X Tasks :
        /\ p[1] # p[2]
        /\ w_ok[p[1]] = w_ok[p[2]]
        /\ p[1] \in ComputedTasks
        /\ p[2] \in ComputedTasks}

\* the cache the workers of this run use
RunCache == IF s_bd THEN m_durationInfoX ELSE m_durationInfo

C17_EntriesImmutable ==
    [][\A k \in DOMAIN RunCache : k \in DOMAIN RunCache' /\ RunCache'[k] = RunCache[k]]_vars

\* C17 witness: the run has ended with a loaded entry and a computed entry in
\* the cache, the computed key having been inserted twice.
C17_Witness ==
    /\ main_pc = "save"
    /\ preloaded # {}
    /\ BothComputed # {}
    /\ Cardinality(DOMAIN RunCache) = 2

\* the tasks that have run the Envelope Analyzer for key k
MeasuredFor(k) == {t \in Tasks : w_ok[t] = k /\ w_chipOps[t] > 0}

\* C18 as stated: during one run the Envelope Analyzer is executed at most
\* once for each distinct key, also when several instruments of the same key
\* are submitted concurrently.
C18_AnalyzerOncePerKey ==
    \A t \in Tasks : Cardinality(MeasuredFor(w_ok[t])) <= 1

\* C18, amended: the Envelope Analyzer is executed at most once for each
\* submitted instrument (its two chip phases, entry and return, once each),
\* only by a worker whose lookup missed, and never for a key that was in the
\* cache when the run began.
C18_AnalyzerOncePerTask ==
    \A t \in Tasks :
        /\ w_chipOps[t] <= 2
        /\ w_chipOps[t] > 0 => (w_atEnd[t] /\ w_ok[t] \notin preloaded)
        /\ Cardinality(MeasuredFor(w_ok[t])) <=
               Cardinality({u \in Tasks : w_ok[u] = w_ok[t] /\ w_atEnd[u]})

\* C18 witness: two instruments of the same key have both run the analyzer
\* to its end.
C18_Witness ==
    \E t, u \in Tasks :
        /\ t # u
        /\ w_ok[t] = w_ok[u]
        /\ w_chipOps[t] = 2
        /\ w_chipOps[u] = 2

\* the record of task t as it was submitted: no delays yet, and the flags
\* that went into its key
SubmittedRecord(t) ==
    [db.instruments[t] EXCEPT !.delay_on_ms = 0, !.delay_off_ms = 0,
                              !.instFlags = w_ok[t][9]]

\* the result the inputs determine for task t: the entry the cache was loaded
\* with for its key, else what measuring its content gives
DeterminedInfo(t) ==
    IF w_ok[t] \in preloaded THEN RunCache[w_ok[t]]
    ELSE IF s_bd THEN MeasuredInfo(db, SubmittedRecord(t))
    ELSE LegacyMeasuredInfo(db.instruments[t])

\* C19: when the run has ended, the cache and the annotation of every
\* instrument are functions of the submitted instruments and the loaded cache
\* alone: the cache holds the loaded keys and the submitted keys, each
\* submitted key with the result its content determines, and every record of
\* the newer representation carries the annotation by that result, whatever
\* the position of the instrument and the interleaving of the workers were.
C19_FinalStateDetermined ==
    main_pc \in {"save", "finished"} =>
        /\ DOMAIN RunCache = preloaded \cup {w_ok[t] : t \in Tasks}
        /\ \A t \in Tasks : RunCache[w_ok[t]] = DeterminedInfo(t)
        /\ s_bd => \A t \in Tasks :
               db.instruments[t] = Annotate(SubmittedRecord(t), DeterminedInfo(t))

\* C19 witness: the run has ended; one instrument took its annotation from a
\* loaded entry, one measured, and one hit the entry that the measuring one
\* had inserted.
C19_Witness ==
    /\ main_pc = "save"
    /\ s_bd
    /\ \E t, u, v \in Tasks :
          /\ w_ok[t] \in preloaded
          /\ w_ok[u] \notin preloaded /\ w_atEnd[u]
          /\ w_ok[v] = w_ok[u] /\ ~w_atEnd[v]

\* what a step may do to the measured entry: new delays, and the blank flag
\* added to its flags
OnlyAnnotated(before, after) ==
    /\ [after EXCEPT !.delay_on_ms = before.delay_on_ms,
                     !.delay_off_ms = before.delay_off_ms,
                     !.instFlags = before.instFlags] = before
    /\ after.instFlags \in {before.instFlags, SetFlag(before.instFlags, WOPL_Ins_IsBlank)}

\* C20: every step of a measurement in the newer representation leaves the
\* operator table and every other entry of the database as they are, and
\* changes of the measured entry nothing but delay_on_ms, delay_off_ms and
\* the blank flag.
C20_MeasurementFrame ==
    [][ms_variant = "newer" =>
          /\ db'.operators = db.operators
          /\ Len(db'.instruments) = Len(db.instruments)
          /\ \A i \in 2..Len(db.instruments) : db'.instruments[i] = db.instruments[i]
          /\ OnlyAnnotated(db.instruments[1], db'.instruments[1])]_vars

\* C20 witness: an instrument whose operators have tremolo/vibrato bits set
\* has been programmed with them masked and measured, and a silent instrument
\* would be flagged; here the measured entry carries its new delays.
C20_Witness ==
    /\ ms_variant = "newer"
    /\ ms_pc = "done"
    /\ OperatorAt(ms_ins.ops[1]).d_E862[1] >= 64
    /\ db.instruments[1].delay_on_ms > 0
    /\ db.instruments[1] = ms_ins
    /\ db.instruments[2] = OtherEntry

\* the tasks of the newer representation whose worker has been through
\* MeasureDurations with a nosound that differs from BanksDump::isSilent
MismatchedTasks ==
    {t \in Tasks : /\ s_bd
                   /\ w_atEnd[t]
                   /\ w_pc[t] \notin {"queued", "key", "lock1", "find", "measure", "measuring"}
                   /\ MeasuredInfo(db, db.instruments[t]).nosound #
                          SilentGuess(db, db.instruments[t])}

\* C21: when the measured nosound flag of an instrument differs from the
\* flag BanksDump::isSilent computes for it, the worker is stopped inside
\* exit(1): it never reaches the insert, the cache holds no entry for the
\* instrument's key, and main never gets past waitAll to SaveCacheX.
C21_MismatchIsFatal ==
    \A t \in MismatchedTasks :
        /\ w_pc[t] = "exit1"
        /\ w_ok[t] \notin DOMAIN m_durationInfoX
        /\ main_pc \notin {"save", "finished"}
        /\ m_works[t]

\* C21 witness: one task is inside exit(1) after a mismatch while another
\* task of a different instrument has inserted its result and finished, and
\* main is blocked in waitAll.
C21_Witness ==
    \E t, u \in Tasks :
        /\ t \in MismatchedTasks
        /\ w_pc[t] = "exit1"
        /\ u # t
        /\ w_atEnd[u]
        /\ w_pc[u] = "exited"
        /\ w_ok[u] \in DOMAIN m_durationInfoX
        /\ main_pc = "waitAll"

\* the keys of the records in the cache file, as LoadCacheX would read them
SavedKeys == DOMAIN LoadCacheXResult(f_exists, f_bytes, NoInfo).cache

\* C22, the state part: the file is untouched until main's save, and once
\* main has saved, the file holds a record for the key of every submitted
\* instrument and for every key of the in-memory cache.
SavedAfterWaitAll ==
    /\ main_pc # "finished" => ~f_exists
    /\ (main_pc = "finished" /\ s_bd) =>
          /\ f_exists
          /\ \A t \in Tasks : OperatorsKey(SubmittedRecord(t)) \in SavedKeys
          /\ SavedKeys = DOMAIN m_durationInfoX
          /\ preloaded \subseteq SavedKeys

\* C22: between LoadCacheX and SaveCacheX no entry is removed from the
\* in-memory cache; the cache file is written once, by the step of main that
\* follows the return of waitAll, when every worker has returned; the saved
\* file has a record for the key of every instrument submitted in the run.
C22_SavedOnceAfterWaitAll ==
    /\ []SavedAfterWaitAll
    /\ [][/\ main_pc # "load" => DOMAIN m_durationInfoX \subseteq DOMAIN m_durationInfoX'
          /\ <<f_exists, f_bytes>>' # <<f_exists, f_bytes>> =>
                /\ main_pc = "save" /\ main_pc' = "finished"
                /\ m_threads = <<>>
                /\ \A t \in Tasks : w_pc[t] \in FinishedPcs
          /\ main_pc = "finished" => main_pc' = "finished"]_vars

\* C22 witness: the file has been saved after a run that started from a
\* loaded entry, in which one instrument hit that entry and two instruments
\* of another key were measured; it holds two records.
C22_Witness ==
    /\ s_bd
    /\ main_pc = "finished"
    /\ f_exists
    /\ preloaded # {}
    /\ Cardinality(SavedKeys) = 2
    /\ \E t, u, v \in Tasks :
          /\ t # u /\ w_atEnd[t] /\ w_atEnd[u] /\ w_ok[t] = w_ok[u]
          /\ ~w_atEnd[v] /\ w_ok[v] \in preloaded

\* the tasks whose worker has computed its key and programmed its chip
ProgrammedTasks == {t \in Tasks : w_pc[t] = "measuring" /\ w_writes[t] # <<>>}

\* C23 as stated: any two instruments for which the programmer issues the
\* same register writes and note events are given the same cache key.
C23_SameWritesSameKey ==
    \A t, u \in ProgrammedTasks : w_writes[t] = w_writes[u] => w_ok[t] = w_ok[u]

\* C23 amended: any two instruments of one database that the worker gives the
\* same cache key are programmed with the same register writes and note
\* events.
C23_SameKeySameWrites ==
    \A t, u \in ProgrammedTasks : w_ok[t] = w_ok[u] => w_writes[t] = w_writes[u]

\* C23 witness: two records that are not equal (one carries annotated
\* delays) have the same key and were programmed alike, while a third with
\* another note offset has another key and other writes.
C23_Witness ==
    \E t, u, v \in ProgrammedTasks :
        /\ db.instruments[t] # db.instruments[u]
        /\ w_ok[t] = w_ok[u]
        /\ w_writes[t] = w_writes[u]
        /\ w_ok[v] # w_ok[t]
        /\ w_writes[v] # w_writes[t]
        /\ db.instruments[v].noteOffset1 # db.instruments[t].noteOffset1

\* the state of a task in Queued -> Running -> {CacheHit, Computed} -> Reaped,
\* from the position of its worker, its lookup result and its handle
TaskState(pc, atEnd) ==
    CASE pc = "queued" -> "Queued"
      [] pc \in RunningPcs -> "Running"
      [] pc \in {"endWork", "count", "clearWorks", "exited"} ->
            (IF atEnd THEN "Computed" ELSE "CacheHit")
      [] pc = "reaped" -> "Reaped"

\* the moves of the task state machine
TaskMoves ==
    { <<"Queued", "Running">>, <<"Running", "CacheHit">>, <<"Running", "Computed">>,
      <<"CacheHit", "Reaped">>, <<"Computed", "Reaped">> }

\* the handles main still owns: those in m_threads that waitAll has not
\* deleted yet
OwnedHandles ==
    { m_threads[i] : i \in ((IF main_pc = "waitAll" THEN main_i ELSE 1)..Len(m_threads)) }

\* C24: each task only moves forward through Queued -> Running -> {CacheHit,
\* Computed} -> Reaped; it reaches one of CacheHit and Computed and stays
\* with it; its handle is deleted by run or waitAll only when its worker has
\* returned, and once: a deleted handle is no longer among those main owns.
C24_TaskStateMachine ==
    /\ [][\A t \in Tasks :
            LET before == TaskState(w_pc[t], w_atEnd[t])
                after == TaskState(w_pc'[t], w_atEnd'[t])
            IN /\ before # after => <<before, after>> \in TaskMoves
               /\ after = "Reaped" /\ before # "Reaped" =>
                     /\ w_pc[t] = "exited"
                     /\ ~m_works[t]
                     /\ t \in OwnedHandles]_vars
    /\ [](\A t \in Tasks : w_pc[t] = "reaped" => t \notin OwnedHandles)
    /\ [](\A i, j \in 1..Len(m_threads) : m_threads[i] = m_threads[j] => i = j)
    /\ [](main_pc \in {"save", "finished"} => \A t \in Tasks : w_pc[t] = "reaped")

\* C24 witness: main is still submitting; run() has deleted the handle of a
\* task that ended as a cache hit, another task has ended as computed and its
\* handle is not yet deleted, and a third is still queued.
C24_Witness ==
    /\ main_pc = "submit"
    /\ \E t, u, v \in Tasks :
          /\ w_pc[t] = "reaped" /\ ~w_atEnd[t]
          /\ w_pc[u] = "exited" /\ w_atEnd[u]
          /\ w_pc[v] = "queued"

\* noteOff has been called in this execution of MeasureDurations
KeyedOff == ms_pc \in {"release", "result", "done", "exit"}

\* the attack loop left through its break
AttackBrokeEarly == an.windows_passed_on < max_period_on

\* C25 as stated: after an attack loop that ended early the note-off is
\* issued at the chip state at which the peak RMS was measured: as many
\* frames after key-on as had been generated when the peak was observed.
C25_KeyOffAtPeakState ==
    (KeyedOff /\ AttackBrokeEarly) => ms_heard.atKeyOff = ms_heard.atPeak

\* C25 amended: after an attack loop that ran all max_period_on periods the
\* note-off is issued on the chip as the loop left it, max_period_on periods
\* after key-on; after a loop that broke early the chip is reprogrammed and
\* note-off is issued after max(peak_amplitude_time, 1) periods, while the
\* peak RMS had been measured after peak_amplitude_time + 1 periods.
C25_KeyOffAfterPeakTimePeriods ==
    KeyedOff =>
        /\ ms_heard.atPeak = (an.peak_amplitude_time + 1) * samples_per_interval
        /\ ms_heard.atKeyOff =
              IF AttackBrokeEarly
              THEN Max(an.peak_amplitude_time, 1) * samples_per_interval
              ELSE max_period_on * samples_per_interval

\* C25 witness: an attack loop that broke early with its peak measured at a
\* period later than the first, followed by the replay and the note-off.
C25_Witness ==
    /\ KeyedOff
    /\ AttackBrokeEarly
    /\ an.peak_amplitude_time > 1
    /\ ms_heard.atKeyOff = an.peak_amplitude_time * samples_per_interval

\* The audio of the attack phase, taken from the chip directly: the chip as
\* programmed for ms_ins and keyed on, and its sample c frames after key-on.
AttackChip ==
    LET r == resetChip(FreshChip)
        s == IF ms_variant = "legacy" THEN LegacySetInstrument(r, ms_ins)
             ELSE SetInstrument(r, ms_ins)
    IN noteOn(s.chip, s.synth).chip

AttackSampleOf(c0, c) == ChipSample([c0 EXCEPT !.clock = c])

\* the RMS of the window that ends with attack period p: the most recent
\* HistoryCapacity samples, or all of them while there are fewer
AttackRmsOf(c0, p) ==
    LET n == (p + 1) * samples_per_interval
        w == Min(HistoryCapacity, n)
    IN MeasureRMS([i \in 1..w |-> AttackSampleOf(c0, n - w + i - 1)], HannWindow(w), w)

\* the highest RMS of the attack periods 0..p
AttackHighestOf(c0, p) ==
    LET all == {AttackRmsOf(c0, q) : q \in 0..p}
    IN CHOOSE m \in all : \A x \in all : x <= m

AttackRms(p) == CHOOSE r \in {AttackRmsOf(c0, p) : c0 \in {AttackChip}} : TRUE

AttackHighest(p) == CHOOSE r \in {AttackHighestOf(c0, p) : c0 \in {AttackChip}} : TRUE

\* C26: the attack loop analyses at most max_period_on = 6000 periods; when
\* it stops early, it does so at a period number greater than 900, and at
\* that period the RMS is below 0.008 times the highest RMS so far or every
\* sample generated so far lies within [-1, +1].
C26_AttackStopsOnlyAfter900 ==
    ms_pc = "keyoff" =>
        /\ an.windows_passed_on <= max_period_on
        /\ chip.clock <= max_period_on * samples_per_interval
        /\ IF AttackBrokeEarly
           THEN /\ an.windows_passed_on > 900
                /\ chip.clock = (an.windows_passed_on + 1) * samples_per_interval
                /\ \/ RmsBelow(AttackRms(an.windows_passed_on),
                                AttackHighest(an.windows_passed_on),
                                min_coefficient_on_den)
                   \/ ms_heard.attack <= 1
           ELSE chip.clock = max_period_on * samples_per_interval

\* C26 witness: the attack loop has stopped early, later than period 901, on
\* an instrument that was louder than 1: it stopped on the RMS condition.
C26_Witness ==
    /\ ms_pc = "keyoff"
    /\ AttackBrokeEarly
    /\ an.windows_passed_on > 901
    /\ ms_heard.attack > 1

\* the last attack period the loop executed
LastAttackPeriod ==
    IF AttackBrokeEarly THEN an.windows_passed_on ELSE max_period_on - 1

\* the least element of a set of numbers
Least(S) == CHOOSE p \in S : \A q \in S : p <= q

\* the final peak of the attack phase: the first period that reaches the
\* highest RMS top
FinalPeakPeriod(c0, last, top) == Least({p \in 0..last : AttackRmsOf(c0, p) = top})

\* the periods after the peak whose RMS is at most 0.008 times the peak
QuarterPeriods(c0, peak, last, top) ==
    {q \in (peak + 1)..last : RmsAtMost(AttackRmsOf(c0, q), top, min_coefficient_on_den)}

\* MeasureDurations has built its result
MeasEnded == ms_pc \in {"done", "exit"}

\* C27 as stated: quarterTime is the first period after the final peak with
\* RMS <= peak x 0.008, and when there is none it is the total number of
\* attack periods executed.
C27_QuarterOrPeriodsExecuted ==
    MeasEnded =>
        \A c0 \in {AttackChip} :
        \A top \in {AttackHighestOf(c0, LastAttackPeriod)} :
        \A peak \in {FinalPeakPeriod(c0, LastAttackPeriod, top)} :
        \A Q \in {QuarterPeriods(c0, peak, LastAttackPeriod, top)} :
            ms_result.quarter_amplitude_time =
                IF Q # {} THEN Least(Q) ELSE LastAttackPeriod + 1

\* C27 amended: quarterTime is the first period after the final peak with
\* RMS <= peak x 0.008; when there is none it is windows_passed_on: 6000 after
\* a loop that ran to completion, and the number of the period at which the
\* loop broke (one less than the periods executed) after an early stop.
C27_QuarterOrWindowsPassed ==
    MeasEnded =>
        \A c0 \in {AttackChip} :
        \A top \in {AttackHighestOf(c0, LastAttackPeriod)} :
        \A peak \in {FinalPeakPeriod(c0, LastAttackPeriod, top)} :
        \A Q \in {QuarterPeriods(c0, peak, LastAttackPeriod, top)} :
            /\ an.peak_amplitude_time = peak
            /\ ms_result.peak_amplitude_value = top
            /\ ms_result.quarter_amplitude_time =
                  IF Q # {} THEN Least(Q)
                  ELSE IF AttackBrokeEarly THEN LastAttackPeriod ELSE max_period_on

\* C27 witness: a measurement whose first low period was discarded by a later
\* peak and whose quarter time was found after that peak.
C27_Witness ==
    /\ MeasEnded
    /\ an.peak_amplitude_time > 5
    /\ an.quarter_amplitude_time_found
    /\ ms_result.quarter_amplitude_time > an.peak_amplitude_time
    /\ \E c0 \in {AttackChip} :
       \E q \in 1..(an.peak_amplitude_time - 1) :
          RmsAtMost(AttackRmsOf(c0, q), AttackRmsOf(c0, 0), min_coefficient_on_den)
\* one period of the release loop has been executed
ReleasePeriodDone == ms_pc = "release" /\ ms_pc' \in {"release", "result"}

\* the RMS the period just executed left in the history
ReleaseRmsNow ==
    LET h == [data |-> m_data', index |-> m_index', length |-> m_length',
              capacity |-> m_capacity']
    IN MeasureRMS(HistViewOf(h), HannWindow(h.length), h.length)

\* C28: keyoffTime is the first release period whose RMS <= peakValue x 0.2
\* and is never overwritten by a later period; the release loop analyses at
\* most max_period_off = 9000 periods and stops early only when
\* RMS < highestSoFar x 0.2, or at a period greater than 900 when the tracked
\* sample range lies within [-1,+1].  (RMS values are squares here, so the
\* factor 0.2 is 1/25.)
C28_ReleaseLoop ==
    [][ReleasePeriodDone =>
        \A rms \in {ReleaseRmsNow} :
        \A low \in {25 * rms <= an.peak_amplitude_value} :
        \A stop \in {\/ 25 * rms < an.highest_sofar
                      \/ /\ an.period > 900
                         /\ an'.sound_min >= -1 /\ an'.sound_max <= 1} :
           /\ an.period < 9000
           /\ an.period = an.windows_passed_off
           /\ an.keyoff_out_time_found =>
                 /\ an'.keyoff_out_time_found
                 /\ an'.keyoff_out_time = an.keyoff_out_time
           /\ (~an.keyoff_out_time_found /\ low) =>
                 /\ an'.keyoff_out_time_found
                 /\ an'.keyoff_out_time = an.period
           /\ (~an.keyoff_out_time_found /\ ~low) => ~an'.keyoff_out_time_found
           /\ (ms_pc' = "result") <=> (stop \/ an.period = 8999)
           /\ (ms_pc' = "release") => an'.period = an.period + 1
    ]_vars

\* C28 witness: a measurement has ended whose release loop analysed periods
\* that were not low before it found the key-off time, at a period later
\* than the first.
C28_Witness ==
    /\ MeasEnded
    /\ an.keyoff_out_time_found
    /\ an.keyoff_out_time > 0
    /\ an.windows_passed_off >= an.keyoff_out_time
    /\ ms_result.keyoff_out_time = an.keyoff_out_time
\* the byte noteOn writes to the key-on register: (m_x[n] >> 8) & 0xFF
KeyOnByte == (n_x \div 256) % 256

\* C29: for every played note in 0..127 and note offset in -128..127, the
\* high byte that noteOn writes to the key-on register 0xB0+3n has the key-on
\* bit (0x20) set and carries the block number, the count of halvings, within
\* its 3-bit block field (bits 2..4), with nothing carried into the key-on
\* bit or higher bits.
C29_KeyOnBitAndBlock ==
    n_pc = "done" =>
        /\ (KeyOnByte \div 32) % 2 = 1
        /\ KeyOnByte \div 64 = 0
        /\ (KeyOnByte \div 4) % 8 = n_halvings
\* noteOff has been called and nothing was written to the chip since
JustKeyedOff == ms_pc = "release" /\ an.period = 0

\* the key-on registers of the voices noteOn keyed: 0xB0 + 3n, n < m_actualNotesNum
KeyedRegisters == {176 + 3 * (n - 1) : n \in 1..synth.m_actualNotesNum}

\* C30: for each active voice n, noteOff writes to register 0xB0+3n exactly
\* the value noteOn last wrote there with only the key-on bit (0x20) cleared
\* (block and fraction bits identical), and writes nothing for voices that
\* noteOn did not key on: right after noteOff the chip's registers are those
\* noteOn left, except for bit 0x20 of the key-on registers of the active
\* voices.
C30_NoteOffClearsKeyOnOnly ==
    JustKeyedOff =>
        \A c0 \in {AttackChip} :
           /\ DOMAIN chip.regs = DOMAIN c0.regs
           /\ \A a \in DOMAIN chip.regs :
                 IF a \in KeyedRegisters
                 THEN /\ (chip.regs[a] \div 32) % 2 = 0
                      /\ chip.regs[a] % 32 = c0.regs[a] % 32
                      /\ chip.regs[a] \div 64 = c0.regs[a] \div 64
                 ELSE chip.regs[a] = c0.regs[a]

\* C30 witness: noteOff has cleared the key-on bit that noteOn had set for
\* the one active voice, whose byte carries block or fraction bits, and the
\* chip has a second voice that was not keyed.
C30_Witness ==
    /\ JustKeyedOff
    /\ synth.m_actualNotesNum = 1
    /\ 179 \in DOMAIN chip.regs
    /\ (AttackChip.regs[176] \div 32) % 2 = 1
    /\ chip.regs[176] = AttackChip.regs[176] - 32
    /\ chip.regs[176] > 3
\* setInstrument has written the instrument to the chip
Programmed == ms_pc \in {"noteOn", "noteOff", "keyedOff"}

\* the registers of the 0x20 group held by the chip; resetChip writes none
\* of them, so they are those setInstrument wrote, with the value it wrote
Group20Registers == {a \in DOMAIN chip.regs : (a % 256) \in 32..53}

\* the number of voices setInstrument programs
VoicesProgrammed == synth.m_notesNum

\* C31: every value that setInstrument writes to an operator's 0x20-group
\* register has the tremolo and vibrato bits (0x80 and 0x40) cleared, for
\* every operator of every programmed voice, in both the legacy and the
\* newer representation.
C31_TremoloVibratoCleared ==
    Programmed =>
        /\ Cardinality(Group20Registers) = 2 * VoicesProgrammed
        /\ \A a \in Group20Registers : chip.regs[a] < 64

\* C31 witness: a two-voice instrument whose source operators have the
\* tremolo or vibrato bit set has been written to the chip.
C31_Witness ==
    /\ ms_pc = "noteOn"
    /\ VoicesProgrammed = 2
    /\ Cardinality(Group20Registers) = 4
    /\ IF ms_variant = "legacy"
       THEN RawData(ms_ins.insno1).data[1] >= 64 /\ RawData(ms_ins.insno2).data[2] >= 64
       ELSE \A n \in 2..4 : db.operators[ms_ins.ops[n] + 1].d_E862[1] >= 64
\* the percussion key of the instrument being programmed
PercussionKey ==
    IF ms_variant = "legacy" THEN ms_ins.notenum ELSE ms_ins.percussionKeyNumber

\* C32: setInstrument maps percussion key 0 to played note 25 in the legacy
\* representation and to 60 in the newer one; keys >= 128 are first reduced
\* by 128 and then subject to the same default, so for every key in 0..255
\* the played note is in 1..127.
C32_PlayedNote ==
    Programmed =>
        /\ synth.m_playNoteNum \in 1..127
        /\ (PercussionKey % 128 = 0) =>
               synth.m_playNoteNum = (IF ms_variant = "legacy" THEN 25 ELSE 60)
        /\ (PercussionKey % 128 # 0) => synth.m_playNoteNum = PercussionKey % 128

\* C32 witness: an instrument of the newer representation with percussion
\* key 128 has been programmed and plays note 60.
C32_Witness ==
    /\ Programmed
    /\ ms_variant = "newer"
    /\ PercussionKey = 128
    /\ synth.m_playNoteNum = 60
\* the periods generated so far by the attack loop, by the peak replay and
\* by the release loop of the current MeasureDurations call; the replay and
\* the release are read off the chip's frame count
AttackPeriodsRun ==
    IF ms_pc = "start" THEN 0
    ELSE IF ms_pc = "attack" THEN an.period
    ELSE IF AttackBrokeEarly THEN an.windows_passed_on + 1 ELSE max_period_on

ReplayPeriodsRun ==
    IF ms_pc \in {"start", "attack", "keyoff"} THEN 0
    ELSE IF ms_pc = "replay" THEN chip.clock \div samples_per_interval
    ELSE IF AttackBrokeEarly THEN ms_heard.atKeyOff \div samples_per_interval ELSE 0

ReleasePeriodsRun ==
    IF ms_pc \in {"release", "result", "done", "exit"}
    THEN chip.clock \div samples_per_interval ELSE 0

PeriodsRun == AttackPeriodsRun + ReplayPeriodsRun + ReleasePeriodsRun

\* C33 as stated: the periods generated in the attack loop, the peak replay
\* and the release loop of one call together never exceed 15000 (100
\* simulated seconds).
C33_AtMost15000Periods == PeriodsRun <= 15000

\* an upper bound on the steps the current call has left: it is never
\* negative, so a call whose every step lowers it takes finitely many steps
MeasStepsLeft ==
    CASE ms_pc = "start" -> 21010
      [] ms_pc = "attack" -> 21005 - an.period
      [] ms_pc = "keyoff" -> 15004
      [] ms_pc = "replay" -> 15003 - an.period
      [] ms_pc = "release" -> 9002 - an.period
      [] ms_pc = "result" -> 1
      [] OTHER -> 0

\* the call can take a step: it is between its loops, or inside a loop
\* whose condition holds
MeasCanStep ==
    \/ ms_pc \in {"start", "keyoff", "result"}
    \/ ms_pc = "attack" /\ an.period < max_period_on
    \/ ms_pc = "replay" /\ ReplayContinues(an.period)
    \/ ms_pc = "release" /\ an.period < max_period_off

\* C33 amended: one MeasureDurations call always terminates (until it has
\* ended it can take a step, and every step lowers MeasStepsLeft, which
\* stays >= 0); it generates at most 6000 periods in the attack loop, fewer
\* periods in the peak replay than in the attack loop, and at most 9000 in
\* the release loop: never more than 20999 periods (140 simulated seconds)
\* in total.
C33_TerminatesWithin20999Periods ==
    /\ [](/\ AttackPeriodsRun <= 6000
          /\ ReplayPeriodsRun <= Max(AttackPeriodsRun, 1) - 1
          /\ ReleasePeriodsRun <= 9000
          /\ PeriodsRun <= 20999
          /\ MeasStepsLeft >= 0
          /\ ~MeasEnded => MeasCanStep)
    /\ [][~MeasEnded => MeasStepsLeft' < MeasStepsLeft]_vars

\* C33 witness: a call has ended that replayed the attack up to a late peak
\* and whose release loop ran all 9000 periods: more than 15000 in total.
C33_Witness ==
    /\ MeasEnded
    /\ AttackBrokeEarly
    /\ ReplayPeriodsRun > 3000
    /\ ReleasePeriodsRun = 9000
    /\ PeriodsRun > 15000
\* C34: a cache hit only ever supplies a result that was measured for the
\* same raw operator register content: an entry saved by SaveCacheX in one
\* run and loaded by LoadCacheX in a later run, in which the shared operator
\* table assigns its indices to different operator contents, is never
\* applied to an instrument whose operator content differs from the content
\* that was measured.  (A result measured for the content of the record has
\* the delays and the silence MeasureDurations gives for that content.)
C34_HitSuppliesSameContent ==
    \A t \in CountedHits :
        LET e == db.instruments[t]
            di == MeasuredInfo(db, e)
        IN /\ e.delay_on_ms = di.ms_sound_kon
           /\ e.delay_off_ms = di.ms_sound_koff
           /\ HasFlag(e.instFlags, WOPL_Ins_IsBlank) = di.nosound

\* every call of run has returned and every task is in a terminal state, or
\* a measurement has not terminated: its worker is inside exit(1)
RunsReturnedTasksEnded ==
    \/ /\ main_b > NumIns
       /\ \A t \in Tasks : w_pc[t] \in {"exited", "reaped"}
    \/ \E t \in Tasks : w_pc[t] = "exit1"

\* C35: under fair scheduling and terminating measurements, every call to
\* MeasureThreaded::run eventually returns and every submitted task
\* eventually reaches a terminal state, for every capacity the constructor
\* can compute as 2 x std::thread::hardware_concurrency(), including every
\* value that function may report.
C35_RunReturnsTasksEnd == <>RunsReturnedTasksEnded

\* the same for the runs in which hardware_concurrency() reports at least 1
C35_RunReturnsWithSlots == (hw >= 1) => <>RunsReturnedTasksEnded

\* the value LoadCacheX reads back from the five bytes SaveCacheX writes for v
SavedAndLoaded(v) == ValueAt(ValueBytes(v), 0, NoInfo)

\* C36: every result of MeasureDurations has ms_sound_kon =
\* floor(quarterTime x 1000 / 150) <= 40000 and ms_sound_koff =
\* floor(keyoffTime x 1000 / 150) <= 59993, so both lie in [0, 65535] and the
\* 16-bit fields written by SaveCacheX and read by LoadCacheX return them
\* unchanged.
C36_DelaysFit16Bits ==
    MeasEnded =>
        /\ ms_result.ms_sound_kon = (ms_result.quarter_amplitude_time * 1000) \div 150
        /\ ms_result.ms_sound_koff = (ms_result.keyoff_out_time * 1000) \div 150
        /\ ms_result.ms_sound_kon \in 0..40000
        /\ ms_result.ms_sound_koff \in 0..59993
        /\ SavedAndLoaded(ms_result).ms_sound_kon = ms_result.ms_sound_kon
        /\ SavedAndLoaded(ms_result).ms_sound_koff = ms_result.ms_sound_koff
        /\ SavedAndLoaded(ms_result).nosound = ms_result.nosound

\* C36 witness: a result with the largest delays possible: the attack never
\* fell to the threshold (quarterTime 6000, 40000 ms, above the range of a
\* signed 16-bit field) and the release fell to it in its last period
\* (keyoffTime 8999, 59993 ms).
C36_Witness ==
    /\ MeasEnded
    /\ ms_result.ms_sound_kon = 40000
    /\ ms_result.ms_sound_koff = 59993

\* the slots of the 2C-element array that hold the view
HistViewSlots == {HistDataOffset + i : i \in 0..(m_length - 1)}

\* the values appended since the last clear() or reset(), in append order
AppendedSince == LastN(h_log, h_since)

\* C37 as stated: after any sequence of reset(C), add and clear with C >= 1,
\* the write index is < C, size() <= C, slot i and slot i+C hold the same
\* value for every i < C, the range [data(), data()+size()) lies inside the
\* 2C-element array, and after a clear() the view equals the values appended
\* since that clear.
C37_ViewIsAppendedSinceClear ==
    m_capacity >= 1 =>
        /\ m_index < m_capacity
        /\ HistSize <= m_capacity
        /\ \A i \in 0..(m_capacity - 1) : m_data[i] = m_data[i + m_capacity]
        /\ HistViewSlots \subseteq 0..(2 * m_capacity - 1)
        /\ h_cleared => HistView = AppendedSince

\* C37 amended: the same, with the view after a clear() being the last
\* min(n, C) of the n values appended since that clear, in append order.
C37_ViewIsTailSinceClear ==
    m_capacity >= 1 =>
        /\ m_index < m_capacity
        /\ HistSize <= m_capacity
        /\ \A i \in 0..(m_capacity - 1) : m_data[i] = m_data[i + m_capacity]
        /\ HistViewSlots \subseteq 0..(2 * m_capacity - 1)
        /\ HistSize = Min(h_since, m_capacity)
        /\ HistView = LastN(AppendedSince, HistSize)

\* C37 witness: values were appended before a clear() and more than C values
\* after it, on a buffer that wrapped; the newest value is not the initial 0
\* and differs from the value appended before it.
C37_Witness ==
    /\ m_capacity >= 2
    /\ h_cleared
    /\ h_since > m_capacity
    /\ Len(h_log) > h_since
    /\ h_log[Len(h_log)] # 0
    /\ h_log[Len(h_log)] # h_log[Len(h_log) - 1]

\* the chip channels (0..17) a register address belongs to: an operator
\* register by the operator offsets g_operatorsMap lists for the channel, a
\* frequency, key-on or feedback/connection register by g_channelsMap
RegisterChannels(a) ==
    LET r == a % 256
        bank == (a \div 256) * 256
    IN IF r \in (160..168) \cup (176..184) \cup (192..200)
       THEN {c \in 0..17 : g_channelsMap[c + 1] = bank + (r % 16)}
       ELSE IF r \in (32..53) \cup (64..85) \cup (96..117) \cup (128..149) \cup (224..245)
       THEN {c \in 0..17 : bank + (r % 32) \in {g_operatorsMap[2 * c + 1],
                                                 g_operatorsMap[2 * c + 2]}}
       ELSE {}

\* the registers setInstrument has written for voice n (from 0)
VoiceRegisters(n) ==
    LET ws == IF ms_variant = "legacy"
              THEN LegacyVoiceWrites(n, RawData(IF n = 0 THEN ms_ins.insno1
                                                ELSE ms_ins.insno2))
              ELSE VoiceWrites(n, ms_ins)
    IN {ws[i][1] : i \in DOMAIN ws}

\* the channel noteOn and noteOff key for voice n: that of 0xB0 + 3n
KeyedChannels(n) == RegisterChannels(176 + 3 * n)

\* the channel whose operators the chip adds to channel c in four-operator
\* mode (register 0x104): channels 0, 1, 2 are paired with 3, 4, 5
PairedChannel(c) == c + 3

\* the channel the registers of voice n have to be on: the keyed channel of
\* the voice or, for the second half of a real four-operator instrument, the
\* channel paired with the keyed channel of the first
VoiceChannels(n) ==
    IF synth.m_isReal4op /\ n >= synth.m_actualNotesNum
    THEN {PairedChannel(c) : c \in KeyedChannels(0)}
    ELSE KeyedChannels(n)

\* C38: for every programmed voice n, the operator registers and the
\* feedback/connection register that setInstrument writes for voice n belong,
\* according to g_operatorsMap and g_channelsMap, to the same chip channel as
\* the frequency and key-on registers 0xA0+3n / 0xB0+3n that noteOn and
\* noteOff write for voice n (or, for a real 4-operator instrument, to the
\* channel paired with the keyed channel).
C38_VoiceOnKeyedChannel ==
    Programmed =>
        \A n \in 0..(synth.m_notesNum - 1) :
            \A a \in VoiceRegisters(n) :
                /\ a \in DOMAIN chip.regs
                /\ RegisterChannels(a) = VoiceChannels(n)

\* what does hold: the registers of the first voice are on the keyed channel
\* 0, and so are, in the legacy representation, all registers of the second
\* voice but the feedback/connection register
FirstVoiceOnKeyedChannel ==
    Programmed =>
        /\ \A a \in VoiceRegisters(0) : RegisterChannels(a) = VoiceChannels(0)
        /\ (ms_variant = "legacy" /\ synth.m_notesNum = 2) =>
               \A a \in VoiceRegisters(1) \ {200} : RegisterChannels(a) = VoiceChannels(1)
        /\ synth.m_notesNum = 2 => (200 \in VoiceRegisters(1) /\ RegisterChannels(200) = {8})
        /\ (ms_variant = "newer" /\ synth.m_notesNum = 2) =>
               \A a \in VoiceRegisters(1) \ {200} : RegisterChannels(a) = {1}

\* C39: if the release phase ends (after 9000 periods or by the silent-range
\* early stop) without any period having RMS <= peakValue x 0.2,
\* keyoff_out_time keeps its initial value 0 and ms_sound_koff is reported as
\* 0, the same value as for a release that is already below the threshold
\* at release period 0.  (RMS values are squares here, so the factor 0.2 is
\* 1/25; keyoff_out_time_found is false exactly while no release period had
\* an RMS that low.)
C39_NoKeyoffReportsZero ==
    /\ [](/\ (ms_pc = "release" /\ an.period = 0) =>
                 (~an.keyoff_out_time_found /\ an.keyoff_out_time = 0)
          /\ (ms_pc \in {"release", "result"} /\ ~an.keyoff_out_time_found) =>
                 an.keyoff_out_time = 0
          /\ (MeasEnded /\ ~an.keyoff_out_time_found) =>
                 (ms_result.keyoff_out_time = 0 /\ ms_result.ms_sound_koff = 0)
          /\ (MeasEnded /\ an.keyoff_out_time_found /\ an.keyoff_out_time = 0) =>
                 (ms_result.keyoff_out_time = 0 /\ ms_result.ms_sound_koff = 0))
    /\ [][ReleasePeriodDone =>
            \A rms \in {ReleaseRmsNow} :
               ~an'.keyoff_out_time_found <=>
                   (~an.keyoff_out_time_found /\ 25 * rms > an.peak_amplitude_value)
       ]_vars

\* C39 witness: a sounding instrument whose release loop ran all 9000 periods
\* without a period at or below the threshold: the reported release is 0 ms.
C39_Witness ==
    /\ MeasEnded
    /\ ~ms_result.nosound
    /\ ReleasePeriodsRun = 9000
    /\ ~an.keyoff_out_time_found
    /\ ms_result.ms_sound_koff = 0
====
